---- MODULE Spec2Model ----
(***************************************************************************)
(* The persistence layer of document-pilot: ProjectStorage (atomic write,  *)
(* debounced write, flush, project delete/load, document blobs) and the    *)
(* before-quit hook of the main process.                                   *)
(*                                                                         *)
(* Strings are sequences of one-character strings, so that sanitizeFileName*)
(* and the name arithmetic of the blob store act on characters.  A path is *)
(* a sequence of components (each a string) below Electron's userData      *)
(* directory.  A file is a directory entry naming an inode; a writer holds *)
(* an open descriptor on an inode, as fs.writeFile does between its open   *)
(* and its close.                                                          *)
(***************************************************************************)
EXTENDS Integers, Sequences, FiniteSets, TLC

\* ------------------------------------------------------------------ bounds

\* Number of save calls (saveAppState / saveProject) of one run.  The n-th
\* call carries the n-th serialized state, so a content names the call that
\* produced it.
MaxCalls == 2

\* Number of write() calls fs.writeFile needs to put one content on disk: a
\* file holding fewer chunks than this is a partially written file.
Chunks == 2

\* Number of filesystem calls of one run that fail with an I/O error
\* (EACCES, ENOSPC, EIO).
MaxErrors == 1

\* Number of copyDocument calls of one run.
MaxDocs == 2

\* Number of ids uid() gives in one run, those of boot() included.
MaxUids == 5

\* Number of save messages of the renderer the main process handles in one run.
MaxSaves == 7

\* Number of saves of a run after which the settings are not saved again.
MaxSettings == 2

\* Number of launches of the application.
MaxLaunches == 3

\* ----------------------------------------------------------------- strings

S_base == <<"d", "o", "c", "u", "m", "e", "n", "t", "-", "p", "i", "l", "o", "t", "-", "d", "a", "t", "a">>
S_appStateJson == <<"a", "p", "p", "-", "s", "t", "a", "t", "e", ".", "j", "s", "o", "n">>
S_projects == <<"p", "r", "o", "j", "e", "c", "t", "s">>
S_projectJson == <<"p", "r", "o", "j", "e", "c", "t", ".", "j", "s", "o", "n">>
S_documents == <<"d", "o", "c", "u", "m", "e", "n", "t", "s">>
S_threads == <<"t", "h", "r", "e", "a", "d", "s">>
S_tmp == <<".", "t", "m", "p">>
S_appState == <<"a", "p", "p", "-", "s", "t", "a", "t", "e">>
S_projectColon == <<"p", "r", "o", "j", "e", "c", "t", ":">>
S_threadDash == <<"t", "h", "r", "e", "a", "d", "-">>
S_dotPdf == <<".", "p", "d", "f">>
S_dot == <<".">>
S_dotdot == <<".", ".">>

Lower == <<"a", "b", "c", "d", "e", "f", "g", "h", "i", "j", "k", "l", "m",
           "n", "o", "p", "q", "r", "s", "t", "u", "v", "w", "x", "y", "z">>
Upper == <<"A", "B", "C", "D", "E", "F", "G", "H", "I", "J", "K", "L", "M",
           "N", "O", "P", "Q", "R", "S", "T", "U", "V", "W", "X", "Y", "Z">>
Digits == {"0", "1", "2", "3", "4", "5", "6", "7", "8", "9"}

Range(f) == {f[i] : i \in DOMAIN f}

Min(a, b) == IF a <= b THEN a ELSE b

\* The character class [a-zA-Z0-9._-] of sanitizeFileName.
SafeChar(c) == c \in Range(Lower) \cup Range(Upper) \cup Digits \cup {".", "_", "-"}

\* String.prototype.slice(0, 200): the length cap of sanitizeFileName.
NameCap == 200

\* name.replace(/[^a-zA-Z0-9._-]/g, '_').slice(0, 200)
sanitizeFileName(name) ==
    LET replaced == [i \in 1..Len(name) |-> IF SafeChar(name[i]) THEN name[i] ELSE "_"]
    IN SubSeq(replaced, 1, Min(Len(replaced), NameCap))

\* ------------------------------------------------------------------- paths

\* path.join: the components in order, "." dropped and ".." taking back the
\* component before it (path.normalize).
RECURSIVE pathNormalize(_, _)
pathNormalize(done, rest) ==
    IF rest = <<>> THEN done
    ELSE IF Head(rest) = S_dot \/ Head(rest) = <<>> THEN pathNormalize(done, Tail(rest))
    ELSE IF Head(rest) = S_dotdot
         THEN pathNormalize(IF done = <<>> THEN done ELSE SubSeq(done, 1, Len(done) - 1),
                            Tail(rest))
    ELSE pathNormalize(Append(done, Head(rest)), Tail(rest))

pathJoin(dir, comps) == pathNormalize(<<>>, dir \o comps)

\* path.dirname of a normalized path.
pathDirname(p) == SubSeq(p, 1, Len(p) - 1)

\* this.baseDir = path.join(app.getPath('userData'), 'document-pilot-data'),
\* relative to userData.
baseDir == <<S_base>>

appStatePath == pathJoin(baseDir, <<S_appStateJson>>)

projectDir(projectId) == pathJoin(baseDir, <<S_projects, sanitizeFileName(projectId)>>)

projectJsonPath(projectId) == pathJoin(projectDir(projectId), <<S_projectJson>>)

projectDocsDir(projectId) == pathJoin(projectDir(projectId), <<S_documents>>)

threadDocsDir(threadId) ==
    pathJoin(baseDir, <<S_threads, sanitizeFileName(threadId), S_documents>>)

\* A resolver that files every target under projects/.
resolveDocsDirProjects(targetId, isThread) == projectDocsDir(targetId)

resolveDocsDir(targetId, isThread) ==
    IF isThread THEN threadDocsDir(targetId) ELSE projectDocsDir(targetId)

\* A writer with no temporary file: it writes the target in place.
TmpPathInPlace(filePath) == filePath

\* const tmp = filePath + '.tmp'
TmpPath(filePath) ==
    SubSeq(filePath, 1, Len(filePath) - 1) \o <<filePath[Len(filePath)] \o S_tmp>>

\* p is d or lies below d.
IsUnder(p, d) == Len(p) >= Len(d) /\ SubSeq(p, 1, Len(d)) = d

\* The directories fs.mkdir(d, {recursive: true}) makes sure exist.
Ancestors(d) == {SubSeq(d, 1, n) : n \in 1..Len(d)}

\* ------------------------------------------------------------------- state

\* The project ids the renderer saves, loads and deletes.
ProjectIds == {<<"p", "1">>}

\* The scheduler keys of saveAppState ('app-state') and saveProject
\* (`project:${project.id}`).
appStateKey == S_appState

projectKey(projectId) == S_projectColon \o projectId

Keys == {appStateKey} \cup {projectKey(p) : p \in ProjectIds}

VARIABLES
    proc,            \* the main process: "running", "quitting", "exited", "crashed"
    debounceTimers,  \* Map key -> timer handle
    pendingWrites,   \* Map key -> {filePath, data}
    timers,          \* the armed setTimeout timers of the event loop, with their closures
    writes,          \* every atomicWrite call so far, in call order, with its position
    flushCall,       \* the flush() call of the before-quit handler, once made: the writes
                     \* it started, and (history) the keys pending, the number of writes
                     \* and of saves, and the latest saves at the call
    dirs,            \* the directories on disk
    files,           \* the directory entries on disk: path -> inode
    inodes,          \* inode -> content, a sequence of chunks
    nCalls,          \* number of save calls so far
    lastSched,       \* history: key -> content of the latest save call (0: none)
    superseded,      \* history: the payloads replaced by a later save while still pending
    overlapped,      \* history: targets on which two atomicWrite calls were in flight together
    deleted,         \* history: projects whose deleteProject resolved, with no saveProject since
    docs,            \* the StoredDocument records copyDocument returned, blob still in place
    readResult,      \* what the latest readDocument call returned, and the record it read
    nCopies,         \* number of copyDocument calls so far
    uploads,         \* history: every StoredDocument record copyDocument returned
    loads,           \* every loadProject call so far, in call order, with its position
    appLoad,         \* what the latest loadAppState call read and returned
    mig,             \* the migrateLegacyState call, once made, with its position
    boot,            \* the renderer's boot(): its position, the call it awaits, and the
                     \* legacy blob of localStorage
    appState,        \* the renderer's appState (null before boot assigns it)
    activeProject,   \* the renderer's activeProject
    activeContext,   \* the renderer's activeContext
    op,              \* the renderer's handler that is awaiting a call of the main process
    ipc,             \* the save messages sent to the main process and not yet handled
    nUids            \* the number of the latest id uid() gave

storeVars == <<proc, debounceTimers, pendingWrites, timers, writes, flushCall,
               dirs, files, inodes, nCalls, lastSched, superseded, overlapped, deleted>>

blobVars == <<docs, readResult, nCopies, uploads>>

loadVars == <<loads, appLoad, mig>>

rendererVars == <<boot, appState, activeProject, activeContext, op, ipc, nUids>>

vars == <<storeVars, blobVars, loadVars, rendererVars>>

Alive == proc \in {"running", "quitting"}

\* A chunk of a file: a piece of a written content, or a hole, the zero
\* bytes left where no write has put anything.
ChunkOf(data) == [c |-> data]

Hole == [hole |-> TRUE]

\* The content a complete write of `data` leaves in a file.
Full(data) == [i \in 1..Chunks |-> ChunkOf(data)]

\* A Map as a function: get, set, delete.
MapHas(m, k) == k \in DOMAIN m

MapSet(m, k, v) == [x \in DOMAIN m \cup {k} |-> IF x = k THEN v ELSE m[x]]

MapDelete(m, k) == [x \in DOMAIN m \ {k} |-> m[x]]

EmptyMap == [x \in {} |-> 0]

\* ------------------------------------------------------------- filesystem

InFlight(w) == w.pc \in {"mkdir", "open", "write", "rename"}

\* The inodes a directory entry or an open descriptor still refers to.
LiveInodes(fs, ws) ==
    Range(fs) \cup {ws[i].fd : i \in {j \in DOMAIN ws : ws[j].fd # 0}}

\* An inode with no directory entry and no open descriptor is freed.
Reclaim(ino, fs, ws) == [i \in DOMAIN ino \cap LiveInodes(fs, ws) |-> ino[i]]

FreshInode(ino) == CHOOSE i \in 1..(Cardinality(DOMAIN ino) + 1) : i \notin DOMAIN ino

\* write(fd, chunk) at the descriptor's offset: a file shorter than the offset
\* is filled with a hole.
PutChunk(content, off, data) ==
    [i \in 1..(IF Len(content) > off THEN Len(content) ELSE off + 1) |->
        IF i = off + 1 THEN ChunkOf(data)
        ELSE IF i <= Len(content) THEN content[i] ELSE Hole]

\* fs.rm(dir, {recursive: true, force: true}): everything at or below dir.
RmDirs(ds, dir) == {d \in ds : ~IsUnder(d, dir)}

RmFiles(fs, dir) == [p \in {q \in DOMAIN fs : ~IsUnder(q, dir)} |-> fs[p]]

\* fs.rename(from, to): the entry `to` names the inode of `from`, which is gone.
RenameEntry(fs, from, to) ==
    [p \in (DOMAIN fs \ {from}) \cup {to} |-> IF p = to THEN fs[from] ELSE fs[p]]

\* What a reader of path p gets: the content, or <<"ENOENT">>.
ReadFile(p) == IF p \in DOMAIN files THEN inodes[files[p]] ELSE <<"ENOENT">>

\* ------------------------------------------------------------ atomicWrite

\* A call of atomicWrite(filePath, data): it runs up to its first await, with
\* fs.mkdir issued.  key and origin ("timer": the debounce timer's callback,
\* "flush": flush) say who made the call.
atomicWrite(filePath, data, key, origin) ==
    [key |-> key, filePath |-> filePath, data |-> data, origin |-> origin,
     pc |-> "mkdir", fd |-> 0, off |-> 0, err |-> FALSE]

\* The targets among `started` that another call, still in flight, is writing.
Overlaps(ws, started) ==
    {w.filePath : w \in {x \in started : \E i \in DOMAIN ws :
                            InFlight(ws[i]) /\ ws[i].filePath = x.filePath}}

\* await fs.mkdir(path.dirname(filePath), { recursive: true })
WriteMkdir(i) ==
    /\ Alive
    /\ writes[i].pc = "mkdir"
    /\ dirs' = dirs \cup Ancestors(pathDirname(writes[i].filePath))
    /\ writes' = [writes EXCEPT ![i].pc = "open"]
    /\ UNCHANGED <<proc, debounceTimers, pendingWrites, timers, flushCall, files, inodes,
                   nCalls, lastSched, superseded, overlapped, deleted>>

\* fs.writeFile(tmp, data, 'utf-8'), its open(tmp, 'w'): the file is created,
\* or truncated when it exists; ENOENT when the directory is gone.
WriteOpen(i) ==
    LET w == writes[i]
        tmp == TmpPath(w.filePath)
    IN /\ Alive
       /\ w.pc = "open"
       /\ IF pathDirname(tmp) \notin dirs
          THEN /\ writes' = [writes EXCEPT ![i].pc = "failed"]
               /\ UNCHANGED <<files, inodes>>
          ELSE LET ino == IF tmp \in DOMAIN files THEN files[tmp] ELSE FreshInode(inodes)
               IN /\ files' = MapSet(files, tmp, ino)
                  /\ inodes' = MapSet(inodes, ino, <<>>)
                  /\ writes' = [writes EXCEPT ![i].pc = "write", ![i].fd = ino, ![i].off = 0]
       /\ UNCHANGED <<proc, debounceTimers, pendingWrites, timers, flushCall, dirs,
                      nCalls, lastSched, superseded, overlapped, deleted>>

\* fs.writeFile, one write() of the next chunk through the open descriptor;
\* the descriptor is closed after the last one.
WriteChunk(i) ==
    LET w == writes[i]
        last == w.off + 1 = Chunks
        ws == [writes EXCEPT ![i].off = IF last THEN 0 ELSE w.off + 1,
                             ![i].fd = IF last THEN 0 ELSE w.fd,
                             ![i].pc = IF last THEN "rename" ELSE "write"]
    IN /\ Alive
       /\ w.pc = "write"
       /\ writes' = ws
       /\ inodes' = Reclaim([inodes EXCEPT ![w.fd] = PutChunk(inodes[w.fd], w.off, w.data)],
                            files, ws)
       /\ UNCHANGED <<proc, debounceTimers, pendingWrites, timers, flushCall, dirs, files,
                      nCalls, lastSched, superseded, overlapped, deleted>>

\* await fs.rename(tmp, filePath): ENOENT when tmp is gone.
WriteRename(i) ==
    LET w == writes[i]
        tmp == TmpPath(w.filePath)
    IN /\ Alive
       /\ w.pc = "rename"
       /\ IF tmp \notin DOMAIN files
          THEN /\ writes' = [writes EXCEPT ![i].pc = "failed"]
               /\ UNCHANGED <<files, inodes>>
          ELSE /\ writes' = [writes EXCEPT ![i].pc = "done"]
               /\ files' = RenameEntry(files, tmp, w.filePath)
               /\ inodes' = Reclaim(inodes, files', writes')
       /\ UNCHANGED <<proc, debounceTimers, pendingWrites, timers, flushCall, dirs,
                      nCalls, lastSched, superseded, overlapped, deleted>>

\* The pending filesystem call of a writer fails (EACCES, ENOSPC, EIO) and
\* changes nothing on disk; atomicWrite rejects.  An open descriptor is closed.
WriteError(i) ==
    /\ Alive
    /\ InFlight(writes[i])
    /\ Cardinality({j \in DOMAIN writes : writes[j].err}) < MaxErrors
    /\ writes' = [writes EXCEPT ![i].pc = "failed", ![i].fd = 0, ![i].off = 0,
                                ![i].err = TRUE]
    /\ inodes' = Reclaim(inodes, files, writes')
    /\ UNCHANGED <<proc, debounceTimers, pendingWrites, timers, flushCall, dirs, files,
                   nCalls, lastSched, superseded, overlapped, deleted>>

\* --------------------------------------------------------- debouncedWrite

\* A debouncedWrite that forgets to cancel the previous timer.
ClearTimeoutNone(ts, handle) == ts

\* clearTimeout(handle)
ClearTimeout(ts, handle) == {t \in ts : t.id # handle}

\* debouncedWrite(key, filePath, data): the previous timer of the key is
\* cancelled, the payload replaced and a new timer armed whose callback holds
\* filePath and data.
debouncedWrite(key, filePath, data) ==
    LET cleared == IF MapHas(debounceTimers, key)
                   THEN ClearTimeout(timers, debounceTimers[key])
                   ELSE timers
        handle == nCalls + 1
    IN /\ pendingWrites' = MapSet(pendingWrites, key, [filePath |-> filePath, data |-> data])
       /\ timers' = cleared \cup {[id |-> handle, key |-> key, filePath |-> filePath,
                                   data |-> data]}
       /\ debounceTimers' = MapSet(debounceTimers, key, handle)
       /\ superseded' = superseded \cup
              (IF MapHas(pendingWrites, key)
               THEN {[key |-> key, data |-> pendingWrites[key].data]} ELSE {})
       /\ lastSched' = [lastSched EXCEPT ![key] = data]
       /\ nCalls' = nCalls + 1

\* saveAppState(state), reached through the 'save-app-state' handler.
SaveAppState ==
    /\ Alive
    /\ nCalls < MaxCalls
    /\ debouncedWrite(appStateKey, appStatePath, nCalls + 1)
    /\ UNCHANGED <<proc, writes, flushCall, dirs, files, inodes, overlapped, deleted>>

\* saveProject(project), reached through the 'save-project' handler.
SaveProject(projectId) ==
    /\ Alive
    /\ nCalls < MaxCalls
    /\ debouncedWrite(projectKey(projectId), projectJsonPath(projectId), nCalls + 1)
    /\ deleted' = deleted \ {projectId}
    /\ UNCHANGED <<proc, writes, flushCall, dirs, files, inodes, overlapped>>

\* A timer callback that removes the key from the timer map only.
TimerFireKeepsPayload(t) ==
    LET w == atomicWrite(t.filePath, t.data, t.key, "timer")
    IN /\ Alive
       /\ t \in timers
       /\ timers' = timers \ {t}
       /\ debounceTimers' = MapDelete(debounceTimers, t.key)
       /\ writes' = Append(writes, w)
       /\ overlapped' = overlapped \cup Overlaps(writes, {w})
       /\ UNCHANGED <<proc, flushCall, dirs, files, inodes, nCalls, lastSched, superseded,
                      deleted, pendingWrites>>

\* A timer callback that starts the write and leaves the key in both maps.
TimerFireKeepsEntry(t) ==
    LET w == atomicWrite(t.filePath, t.data, t.key, "timer")
    IN /\ Alive
       /\ t \in timers
       /\ timers' = timers \ {t}
       /\ writes' = Append(writes, w)
       /\ overlapped' = overlapped \cup Overlaps(writes, {w})
       /\ UNCHANGED <<proc, flushCall, dirs, files, inodes, nCalls, lastSched, superseded,
                      deleted, debounceTimers, pendingWrites>>

\* The setTimeout callback of debouncedWrite: the key leaves both maps, then
\* atomicWrite is called with the callback's own filePath and data; its
\* failure is caught and logged.
TimerFire(t) ==
    LET w == atomicWrite(t.filePath, t.data, t.key, "timer")
    IN /\ Alive
       /\ t \in timers
       /\ timers' = timers \ {t}
       /\ debounceTimers' = MapDelete(debounceTimers, t.key)
       /\ pendingWrites' = MapDelete(pendingWrites, t.key)
       /\ writes' = Append(writes, w)
       /\ overlapped' = overlapped \cup Overlaps(writes, {w})
       /\ UNCHANGED <<proc, flushCall, dirs, files, inodes, nCalls, lastSched, superseded,
                      deleted>>

\* ------------------------------------------------------------------ flush

\* The keys of a Map in one order.  The order in which flush starts its
\* writes gives them their positions in `writes` and nothing else: their
\* filesystem calls complete in any order.
KeySeq(m) ==
    CHOOSE s \in [1..Cardinality(DOMAIN m) -> DOMAIN m] : Range(s) = DOMAIN m

\* The loop of flush over this.debounceTimers: the payloads whose writes it
\* starts, one for each key that has a pending payload.
FlushPending ==
    LET ks == KeySeq(debounceTimers)
    IN SelectSeq([n \in DOMAIN ks |-> [key |-> ks[n], has |-> MapHas(pendingWrites, ks[n])]],
                 LAMBDA e : e.has)

\* A flush that forgets to cancel the timers.
FlushClearNone == timers

\* The timers left armed by the loop of flush: clearTimeout on every handle
\* of this.debounceTimers.
FlushClear ==
    {t \in timers : t.id \notin Range(debounceTimers)}

\* flush(), up to its await: every timer of the map is cancelled, a write is
\* started for every pending payload, both maps are cleared.
flush ==
    LET ps == FlushPending
        ws == [n \in DOMAIN ps |->
                  atomicWrite(pendingWrites[ps[n].key].filePath,
                              pendingWrites[ps[n].key].data, ps[n].key, "flush")]
    IN /\ timers' = FlushClear
       /\ writes' = writes \o ws
       /\ overlapped' = overlapped \cup Overlaps(writes, Range(ws))
       /\ debounceTimers' = EmptyMap
       /\ pendingWrites' = EmptyMap
       /\ flushCall' = [called |-> TRUE,
                        ws |-> (Len(writes) + 1)..(Len(writes) + Len(ws)),
                        keys |-> DOMAIN pendingWrites,
                        before |-> Len(writes),
                        n |-> nCalls,
                        sched |-> lastSched]

\* Promise.allSettled in the place of Promise.all: fulfilled once every write
\* has completed or failed.
FlushStatusAllSettled ==
    IF ~flushCall.called THEN "none"
    ELSE IF \A i \in flushCall.ws : writes[i].pc \in {"done", "failed"} THEN "resolved"
    ELSE "awaiting"

\* Promise.all(writes) of flush: rejected as soon as one write has failed,
\* fulfilled once all are done.
FlushStatus ==
    IF ~flushCall.called THEN "none"
    ELSE IF \E i \in flushCall.ws : writes[i].pc = "failed" THEN "rejected"
    ELSE IF \A i \in flushCall.ws : writes[i].pc = "done" THEN "resolved"
    ELSE "awaiting"

\* app.on('before-quit', async () => { await storage.flush(); ... }): the
\* handler runs up to its first await, inside flush.  The handler does not
\* call event.preventDefault(), so Electron goes on quitting, and emits the
\* event once.
BeforeQuit ==
    /\ proc = "running"
    /\ flush
    /\ proc' = "quitting"
    /\ UNCHANGED <<dirs, files, inodes, nCalls, lastSched, superseded, deleted>>

\* The process is gone: its maps, its timers and its filesystem calls in
\* progress are lost with it (open descriptors are closed); the disk stays.
Lost(w) == IF InFlight(w) THEN [w EXCEPT !.pc = "lost", !.fd = 0, !.off = 0] ELSE w

ProcessEnds ==
    /\ debounceTimers' = EmptyMap
    /\ pendingWrites' = EmptyMap
    /\ timers' = {}
    /\ writes' = [i \in DOMAIN writes |-> Lost(writes[i])]
    /\ inodes' = Reclaim(inodes, files, writes')
    /\ UNCHANGED <<flushCall, dirs, files, nCalls, lastSched, superseded, overlapped, deleted>>

\* Electron ends the process of a quitting application: nothing awaits the
\* promise of the before-quit handler.
Exit ==
    /\ proc = "quitting"
    /\ proc' = "exited"
    /\ ProcessEnds

\* The process crashes.
Crash ==
    /\ Alive
    /\ proc' = "crashed"
    /\ ProcessEnds

\* --------------------------------------------------------------- projects

\* JSON.parse succeeds on a completely written content.
Parsable(raw) == \E d \in 1..MaxCalls : raw = Full(d)

Null == <<"null">>

\* loadProject(projectId): null when the file cannot be read or parsed.  No
\* file of this model holds the 'sessions' schema, so the upgrade branch is
\* not taken.
loadProject(projectId) ==
    LET raw == ReadFile(projectJsonPath(projectId))
    IN IF Parsable(raw) THEN raw ELSE Null

\* deleteProject(projectId): fs.rm(dir, { recursive: true, force: true }),
\* taken as one step; a missing directory is not an error.
DeleteProject(projectId) ==
    LET dir == projectDir(projectId)
    IN /\ Alive
       /\ dirs' = RmDirs(dirs, dir)
       /\ files' = RmFiles(files, dir)
       /\ inodes' = Reclaim(inodes, files', writes)
       /\ deleted' = deleted \cup {projectId}
       /\ UNCHANGED <<proc, debounceTimers, pendingWrites, timers, writes, flushCall,
                      nCalls, lastSched, superseded, overlapped>>

\* -------------------------------------------------------------- documents

\* The ids the renderer passes as targetId: a project id, and a global thread
\* id (uid('thread'), "thread-...").
TargetIds == {<<"p", "1">>, <<"t", "h", "r", "e", "a", "d", "-", "1">>}

\* Document ids: without and with the separator (uid('doc') is "doc-...").
DocumentIds == {<<"d", "1">>, <<"d", "o", "c", "-", "1">>}

\* A file name longer than the cap of sanitizeFileName.
LongName == [i \in 1..(NameCap - 1) |-> "x"] \o S_dotPdf

\* The file name whose stored name, under document id "d1", is what
\* sanitizeFileName leaves of the stored name of LongName under the same id.
CutName == SubSeq(LongName, 1, NameCap - 3)

FileNames ==
    {<<"r", "e", "p", "o", "r", "t", ".", "p", "d", "f">>,
     <<"m", "y", " ", "f", "i", "l", "e", ".", "c", "s", "v">>,
     <<"S", "c", "a", "n", ".", "P", "D", "F">>,
     LongName, CutName}

\* File contents (Buffer), each named by a number.
FileDatas == {7, 8}

\* String.prototype.startsWith, endsWith, toLowerCase, indexOf, slice(from).
startsWith(s, prefix) == Len(s) >= Len(prefix) /\ SubSeq(s, 1, Len(prefix)) = prefix

endsWith(s, suffix) ==
    Len(s) >= Len(suffix) /\ SubSeq(s, Len(s) - Len(suffix) + 1, Len(s)) = suffix

toLowerCase(s) ==
    [i \in 1..Len(s) |->
        IF \E j \in DOMAIN Upper : Upper[j] = s[i]
        THEN Lower[CHOOSE j \in DOMAIN Upper : Upper[j] = s[i]]
        ELSE s[i]]

indexOf(s, c) ==
    IF \E i \in 1..Len(s) : s[i] = c
    THEN (CHOOSE i \in 1..Len(s) : s[i] = c /\ \A j \in 1..(i - 1) : s[j] # c) - 1
    ELSE -1

slice(s, from) == SubSeq(s, from + 1, Len(s))

\* fileName.toLowerCase().endsWith('.pdf') ? 'pdf' : 'tabular'
inferDocumentKind(fileName) ==
    IF endsWith(toLowerCase(fileName), S_dotPdf) THEN "pdf" ELSE "tabular"

\* `${sanitizeFileName(documentId)}-${sanitizeFileName(originalFileName)}`
StoredFileName(documentId, originalFileName) ==
    sanitizeFileName(documentId) \o <<"-">> \o sanitizeFileName(originalFileName)

\* The docs directory of copyDocument, readDocument and deleteDocument.
DocsDirOf(targetId) == resolveDocsDir(targetId, startsWith(targetId, S_threadDash))

NoRead == [status |-> "none"]

\* copyDocument(targetId, documentId, originalFileName, fileData): the docs
\* directory is made, the file written under the stored name, the
\* StoredDocument returned (targetId and fileData are kept with it, for the
\* properties; the record of a blob written over leaves docs).  The call is
\* taken as one step, from its mkdir to its return.
CopyDocument(targetId, documentId, originalFileName, fileData) ==
    LET docsDir == DocsDirOf(targetId)
        storedFileName == StoredFileName(documentId, originalFileName)
        dest == pathJoin(docsDir, <<storedFileName>>)
        ino == IF dest \in DOMAIN files THEN files[dest] ELSE FreshInode(inodes)
        doc == [id |-> documentId,
                originalFileName |-> originalFileName,
                storedFileName |-> storedFileName,
                kind |-> inferDocumentKind(originalFileName),
                targetId |-> targetId,
                fileData |-> fileData]
    IN /\ nCopies < MaxDocs
       /\ nCopies' = nCopies + 1
       /\ uploads' = uploads \cup {doc}
       /\ dirs' = dirs \cup Ancestors(docsDir)
       /\ files' = MapSet(files, dest, ino)
       /\ inodes' = MapSet(inodes, ino, Full(fileData))
       /\ docs' = {d \in docs : pathJoin(DocsDirOf(d.targetId), <<d.storedFileName>>) # dest}
                      \cup {doc}
       /\ readResult' = NoRead
       /\ UNCHANGED <<proc, debounceTimers, pendingWrites, timers, writes, flushCall,
                      nCalls, lastSched, superseded, overlapped, deleted>>

\* readDocument(targetId, storedFileName) on a record of docs: the file named
\* by the sanitized stored name is read (ENOENT rejects), and the original
\* name is what follows the first '-'.
ReadDocument(doc) ==
    LET docsDir == DocsDirOf(doc.targetId)
        safeName == sanitizeFileName(doc.storedFileName)
        filePath == pathJoin(docsDir, <<safeName>>)
        dashIndex == indexOf(safeName, "-")
        originalFileName == IF dashIndex >= 0 THEN slice(doc.storedFileName, dashIndex + 1)
                            ELSE doc.storedFileName
    IN /\ doc \in docs
       /\ readResult' =
             IF filePath \notin DOMAIN files
             THEN [status |-> "ENOENT", doc |-> doc]
             ELSE [status |-> "ok", doc |-> doc,
                   fileData |-> ReadFile(filePath),
                   originalFileName |-> originalFileName,
                   kind |-> inferDocumentKind(originalFileName)]
       /\ UNCHANGED <<storeVars, docs, nCopies, uploads>>

\* deleteDocument(targetId, storedFileName) on a record of docs:
\* fs.rm(path, { force: true }) of the sanitized stored name.
DeleteDocument(doc) ==
    LET filePath == pathJoin(DocsDirOf(doc.targetId), <<sanitizeFileName(doc.storedFileName)>>)
    IN /\ doc \in docs
       /\ files' = MapDelete(files, filePath)
       /\ inodes' = Reclaim(inodes, files', writes)
       /\ docs' = docs \ {doc}
       /\ readResult' = NoRead
       /\ UNCHANGED <<proc, debounceTimers, pendingWrites, timers, writes, flushCall, dirs,
                      nCalls, lastSched, superseded, overlapped, deleted, nCopies, uploads>>

\* ------------------------------------------------------------------- JSON

\* A JavaScript value as JSON.parse builds it: the pair of its type and its
\* payload.  The payload of an object is the function from its keys to their
\* values, that of an array the sequence of its elements.  undefined is what
\* reading a missing property gives.
Str(s) == <<"string", s>>

Num(n) == <<"number", n>>

Arr(a) == <<"array", a>>

Obj(o) == <<"object", o>>

JNull == <<"null", 0>>

Undefined == <<"undefined", 0>>

\* `key in x`, for an object or an array x (no key of this model is an array
\* index); on a primitive the operator throws a TypeError.
Primitive(x) == x[1] \notin {"object", "array"}

In(key, x) == x[1] = "object" /\ key \in DOMAIN x[2]

\* x[key] and x.key: undefined when x has no such property.
Get(x, key) == IF In(key, x) THEN x[2][key] ELSE Undefined

\* x[key] = value and delete x[key], on an object.
Set(x, key, value) == Obj(MapSet(x[2], key, value))

Delete(x, key) == Obj(MapDelete(x[2], key))

\* The values `if (x)` and `x && ...` take as false.
Falsy(x) ==
    \/ x[1] \in {"undefined", "null"}
    \/ x[1] = "string" /\ x[2] = ""
    \/ x[1] = "number" /\ x[2] = 0

\* a ?? b
Coalesce(a, b) == IF a[1] \in {"undefined", "null"} THEN b ELSE a

\* What JSON.stringify keeps of a value: a property whose value is undefined
\* is left out, an undefined array element is written as null.
RECURSIVE JSONclean(_)
JSONclean(x) ==
    IF x[1] = "object"
    THEN Obj([k \in {q \in DOMAIN x[2] : x[2][q][1] # "undefined"} |-> JSONclean(x[2][k])])
    ELSE IF x[1] = "array"
    THEN Arr([i \in DOMAIN x[2] |->
                 IF x[2][i][1] = "undefined" THEN JNull ELSE JSONclean(x[2][i])])
    ELSE x

\* JSON.stringify(x, null, 2): the text of x.
JSONstringify(x) == [json |-> JSONclean(x)]

\* A text that is not JSON.
BadText == [bad |-> TRUE]

\* The outcome of a step that can throw, and of a call: a value or an exception.
Returned(value) == [status |-> "ok", value |-> value]

Thrown == [status |-> "threw", value |-> JNull]

\* The content is one text, completely written.
CompleteText(raw) ==
    /\ Len(raw) = Chunks
    /\ \A i \in 1..Len(raw) : raw[i] # Hole /\ raw[i] = raw[1]

\* JSON.parse(await fs.readFile(path, 'utf-8')): readFile throws ENOENT on a
\* missing file, JSON.parse a SyntaxError on a text that is not JSON or is not
\* whole.
ReadJson(path) ==
    IF path \notin DOMAIN files THEN Thrown
    ELSE LET raw == inodes[files[path]]
         IN IF ~CompleteText(raw) THEN Thrown
            ELSE IF "json" \notin DOMAIN raw[1].c THEN Thrown
            ELSE Returned(raw[1].c.json)

\* A catch block that lets the exception through.
CaughtRethrow == Thrown

\* catch { return null; }
Caught == Returned(JNull)

\* ---------------------------------------------------------------- app state

\* if (old in obj && !(new in obj)) { obj[new] = obj[old]; delete obj[old]; }
\* with the second test left out.
RenameAlways(obj, old, new) ==
    IF In(old, obj) THEN Delete(Set(obj, new, obj[2][old]), old) ELSE obj

\* if (old in obj && !(new in obj)) { obj[new] = obj[old]; delete obj[old]; }
Rename(obj, old, new) ==
    IF In(old, obj) /\ ~In(new, obj) THEN Delete(Set(obj, new, obj[2][old]), old) ELSE obj

\* The body of loadAppState after JSON.parse: the two renames of the state,
\* then that of settings.shortcuts, made in place.
appStateRenames(data) ==
    IF Primitive(data) THEN Thrown
    ELSE LET d1 == Rename(data, "globalThreads", "threads")
             d2 == Rename(d1, "activeSessionId", "activeThreadId")
             settings == Get(d2, "settings")
             shortcuts == Get(settings, "shortcuts")
         IN IF Falsy(settings) \/ Falsy(shortcuts) THEN Returned(d2)
            ELSE IF Primitive(shortcuts) THEN Thrown
            ELSE IF shortcuts[1] = "array" THEN Returned(d2)
            ELSE Returned(Set(d2, "settings",
                              Set(settings, "shortcuts",
                                  Rename(shortcuts, "newSession", "newThread"))))

\* loadAppState(), as a reader of the disk of this state.
loadAppState ==
    LET parsed == ReadJson(appStatePath)
        renamed == appStateRenames(parsed.value)
    IN IF parsed.status = "threw" THEN Caught
       ELSE IF renamed.status = "threw" THEN Caught
       ELSE renamed

NoAppLoad == [called |-> FALSE, seen |-> Thrown, result |-> Thrown]

\* A call of loadAppState, from the 'load-app-state' handler.
LoadAppState ==
    /\ Alive
    /\ appLoad' = [called |-> TRUE, seen |-> ReadJson(appStatePath), result |-> loadAppState]
    /\ UNCHANGED <<storeVars, blobVars, loads, mig>>

\* saveAppState(state) with the state it serializes.
SaveAppStateOf(state) ==
    /\ Alive
    /\ nCalls < MaxCalls
    /\ debouncedWrite(appStateKey, appStatePath, JSONstringify(state))
    /\ UNCHANGED <<proc, writes, flushCall, dirs, files, inodes, overlapped, deleted>>

\* ------------------------------------------------------------ loadProject

\* Number of loadProject calls of one run.
MaxLoads == 3

\* { ...s, documents: [] }: the own properties of s (none for null or a
\* number), then documents.
Spread(s) == IF s[1] = "object" THEN s[2] ELSE EmptyMap

upgradeSession(s) == Obj(MapSet(Spread(s), "documents", Arr(<<>>)))

\* data.threads = sessions.map((s) => ({ ...s, documents: [] }));
\* delete data.sessions;   (sessions.map throws when sessions is no array)
upgradeSessions(data) ==
    LET sessions == Get(data, "sessions")
    IN IF sessions[1] # "array" THEN Thrown
       ELSE Returned(Delete(Set(data, "threads",
                                Arr([i \in DOMAIN sessions[2] |-> upgradeSession(sessions[2][i])])),
                            "sessions"))

\* 'sessions' in data && !('threads' in data)
NeedsUpgrade(data) == In("sessions", data) /\ ~In("threads", data)

\* What the target of a load holds: its chunks, or no file.
Seen(path) == IF path \in DOMAIN files THEN <<"file", inodes[files[path]]>> ELSE <<"ENOENT">>

\* A call of loadProject(projectId), from the 'load-project' handler, up to
\* its return or to its await of atomicWrite.  `parsed` is what JSON.parse
\* gave, `after` the calls that had returned when this one was made, `disk`
\* what the file and its .tmp sibling hold when the call returns (history).
LoadProject(projectId) ==
    LET path == projectJsonPath(projectId)
        parsed == ReadJson(path)
        data == parsed.value
        upgraded == upgradeSessions(data)
        call == [projectId |-> projectId, parsed |-> parsed, w |-> 0, pc |-> "returned",
                 result |-> Caught, disk |-> Seen(path),
                 after |-> {l \in DOMAIN loads : loads[l].pc = "returned"}]
        w == atomicWrite(path, JSONstringify(upgraded.value), projectKey(projectId), "load")
    IN /\ Alive
       /\ Len(loads) < MaxLoads
       /\ IF parsed.status = "threw" \/ Primitive(data)
          THEN /\ loads' = Append(loads, call)
               /\ UNCHANGED <<writes, overlapped>>
          ELSE IF ~NeedsUpgrade(data)
          THEN /\ loads' = Append(loads, [call EXCEPT !.result = Returned(data)])
               /\ UNCHANGED <<writes, overlapped>>
          ELSE IF upgraded.status = "threw"
          THEN /\ loads' = Append(loads, call)
               /\ UNCHANGED <<writes, overlapped>>
          ELSE /\ loads' = Append(loads, [call EXCEPT !.pc = "awaiting",
                                                      !.w = Len(writes) + 1,
                                                      !.result = Returned(upgraded.value)])
               /\ writes' = Append(writes, w)
               /\ overlapped' = overlapped \cup Overlaps(writes, {w})
       /\ UNCHANGED <<proc, debounceTimers, pendingWrites, timers, flushCall, dirs, files,
                      inodes, nCalls, lastSched, superseded, deleted, blobVars, appLoad, mig>>

\* loadProject resumes when its atomicWrite has settled: it returns the
\* upgraded data, or the catch block's value when the write failed.
LoadProjectResume(l) ==
    LET call == loads[l]
    IN /\ Alive
       /\ call.pc = "awaiting"
       /\ writes[call.w].pc \in {"done", "failed"}
       /\ loads' = [loads EXCEPT ![l].pc = "returned",
                                 ![l].disk = Seen(projectJsonPath(call.projectId)),
                                 ![l].result = IF writes[call.w].pc = "failed"
                                               THEN Caught ELSE call.result]
       /\ UNCHANGED <<storeVars, blobVars, appLoad, mig>>

\* ------------------------------------------------------ migrateLegacyState

\* The characters of a string that names a project: the ids of the legacy
\* states below, by table.
Chars(s) ==
    CASE s = "" -> <<>>
      [] s = "p1" -> <<"p", "1">>
      [] s = "p2" -> <<"p", "2">>
      [] s = "p3" -> <<"p", "3">>
      [] s = "project-1" -> <<"p", "r", "o", "j", "e", "c", "t", "-", "1">>
      [] s = "project-2" -> <<"p", "r", "o", "j", "e", "c", "t", "-", "2">>
      [] s = "project-3" -> <<"p", "r", "o", "j", "e", "c", "t", "-", "3">>
      [] s = "project-4" -> <<"p", "r", "o", "j", "e", "c", "t", "-", "4">>
      [] s = "project-5" -> <<"p", "r", "o", "j", "e", "c", "t", "-", "5">>
      [] s = "project-6" -> <<"p", "r", "o", "j", "e", "c", "t", "-", "6">>
      [] s = "project-7" -> <<"p", "r", "o", "j", "e", "c", "t", "-", "7">>
      [] s = "thread-1" -> <<"t", "h", "r", "e", "a", "d", "-", "1">>
      [] s = "thread-2" -> <<"t", "h", "r", "e", "a", "d", "-", "2">>
      [] s = "thread-3" -> <<"t", "h", "r", "e", "a", "d", "-", "3">>
      [] s = "thread-4" -> <<"t", "h", "r", "e", "a", "d", "-", "4">>
      [] s = "thread-5" -> <<"t", "h", "r", "e", "a", "d", "-", "5">>
      [] s = "thread-6" -> <<"t", "h", "r", "e", "a", "d", "-", "6">>
      [] s = "thread-7" -> <<"t", "h", "r", "e", "a", "d", "-", "7">>

\* JSON.parse(text): a SyntaxError on a text that is not JSON.
JSONparse(text) == IF "json" \in DOMAIN text THEN Returned(text.json) ELSE Thrown

\* (m) => ({ id: m.id, role: m.role, content: m.content, createdAt: m.createdAt,
\*           meta: m.meta })
migrateMessage(m) ==
    Obj([id |-> Get(m, "id"), role |-> Get(m, "role"), content |-> Get(m, "content"),
         createdAt |-> Get(m, "createdAt"), meta |-> Get(m, "meta")])

\* A session mapper that carries the session over whole and adds the documents.
migrateThreadSpread(s) == Obj(MapSet(Spread(s), "documents", Arr(<<>>)))

\* (s) => ({ id: s.id, title: s.title, messages: s.messages.map(...),
\*           documents: [], activeDocumentId: null, lastUpdated: s.lastUpdated })
migrateThread(s) ==
    LET messages == Get(s, "messages")[2]
    IN Obj([id |-> Get(s, "id"), title |-> Get(s, "title"),
            messages |-> Arr([i \in DOMAIN messages |-> migrateMessage(messages[i])]),
            documents |-> Arr(<<>>), activeDocumentId |-> JNull,
            lastUpdated |-> Get(s, "lastUpdated")])

\* const meta: ProjectMetadata = { id: p.id, name: p.name, documents: [],
\*     threads: p.sessions.map(...), createdAt: p.createdAt, updatedAt: now }
migrateProject(p, now) ==
    LET sessions == Get(p, "sessions")[2]
    IN Obj([id |-> Get(p, "id"), name |-> Get(p, "name"), documents |-> Arr(<<>>),
            threads |-> Arr([i \in DOMAIN sessions |-> migrateThread(sessions[i])]),
            createdAt |-> Get(p, "createdAt"), updatedAt |-> Num(now)])

\* The loop body throws a TypeError before its first await: p.sessions or a
\* session's messages is no array (.map of undefined), a message is null, or
\* p.id is no string (sanitizeFileName calls name.replace).
ProjectThrows(p) ==
    LET sessions == Get(p, "sessions")
    IN \/ sessions[1] # "array"
       \/ \E i \in DOMAIN sessions[2] :
             LET messages == Get(sessions[2][i], "messages")
             IN \/ messages[1] # "array"
                \/ \E j \in DOMAIN messages[2] : messages[2][j][1] \in {"null", "undefined"}
       \/ Get(p, "id")[1] # "string"

\* A fallback to the project the loop handled last.
lastProjectId(projects) ==
    IF projects = <<>> THEN Undefined ELSE Get(projects[Len(projects)], "id")

\* projects[0]?.id
firstProjectId(projects) ==
    IF projects = <<>> THEN Undefined ELSE Get(projects[1], "id")

\* projects[0]?.sessions[0]?.id
firstSessionId(projects) ==
    IF projects = <<>> THEN Undefined
    ELSE LET sessions == Get(projects[1], "sessions")[2]
         IN IF sessions = <<>> THEN Undefined ELSE Get(sessions[1], "id")

defaultSettings ==
    Obj([model |-> Str("gpt-5-mini"), reasoningEffort |-> Str("high"),
         shortcuts |-> Obj([sendMessage |-> Str("Meta+Enter"),
                            newThread |-> Str("Meta+Shift+N")])])

\* const appState: AppState = { projectIndex, threads: [], activeProjectId: ...,
\*     activeThreadId: ..., settings: legacy.settings ?? defaultSettings }
migrateAppState(legacy, projects, projectIndex) ==
    Obj([projectIndex |-> Arr(projectIndex),
         threads |-> Arr(<<>>),
         activeProjectId |-> Coalesce(Get(legacy, "activeProjectId"),
                                      Coalesce(firstProjectId(projects), JNull)),
         activeThreadId |-> Coalesce(Get(legacy, "activeSessionId"),
                                     Coalesce(firstSessionId(projects), Str(""))),
         settings |-> Coalesce(Get(legacy, "settings"), defaultSettings)])

\* The one call of migrateLegacyState of a run: where it stands, the parsed
\* legacy state and its projects, Date.now() at the call, the project of the
\* loop (k), the write awaited (w), the project index built so far, and
\* (history) the text given, the writes of the project files in call order,
\* the write of app-state.json, and the number of calls that have returned,
\* those of earlier launches included.
NoMig ==
    [pc |-> "none", text |-> BadText, legacy |-> Undefined, projects |-> <<>>, now |-> 0,
     k |-> 0, w |-> 0, projectIndex |-> <<>>, ws |-> <<>>, wApp |-> 0, result |-> Thrown,
     returns |-> 0]

\* migrateLegacyState from the top of the loop, after m.k projects, up to its
\* next await of atomicWrite or to the TypeError of the loop body.  The
\* mkdir of the documents directory is taken with the call of atomicWrite.
MigrateNext(m) ==
    IF m.k < Len(m.projects)
    THEN LET p == m.projects[m.k + 1]
             id == Chars(Get(p, "id")[2])
             w == atomicWrite(projectJsonPath(id), JSONstringify(migrateProject(p, m.now)),
                              projectKey(id), "migrate")
         IN IF ProjectThrows(p)
            THEN /\ mig' = [m EXCEPT !.pc = "threw"]
                 /\ UNCHANGED <<writes, dirs, overlapped>>
            ELSE /\ mig' = [m EXCEPT !.pc = "project", !.k = m.k + 1,
                                     !.w = Len(writes) + 1,
                                     !.ws = Append(m.ws, Len(writes) + 1)]
                 /\ dirs' = dirs \cup Ancestors(projectDocsDir(id))
                 /\ writes' = Append(writes, w)
                 /\ overlapped' = overlapped \cup Overlaps(writes, {w})
    ELSE LET migrated == migrateAppState(m.legacy, m.projects, m.projectIndex)
             w == atomicWrite(appStatePath, JSONstringify(migrated), appStateKey, "migrate")
         IN /\ mig' = [m EXCEPT !.pc = "appState", !.w = Len(writes) + 1,
                                !.wApp = Len(writes) + 1,
                                !.result = Returned(migrated)]
            /\ writes' = Append(writes, w)
            /\ overlapped' = overlapped \cup Overlaps(writes, {w})
            /\ UNCHANGED dirs

\* A call of migrateLegacyState(legacyJson), from the 'migrate-legacy-state'
\* handler, at time `now`: JSON.parse, legacy.projects ?? [] (a TypeError on
\* a legacy null), and the loop up to its first await.  for...of throws on
\* projects that are not iterable.
MigrateCall(legacyJson, now) ==
    LET legacy == JSONparse(legacyJson)
        projects == Coalesce(Get(legacy.value, "projects"), Arr(<<>>))
        m == [NoMig EXCEPT !.pc = "called", !.text = legacyJson, !.legacy = legacy.value,
                           !.now = now, !.returns = mig.returns]
    IN /\ Alive
       /\ mig.pc = "none"
       /\ IF \/ legacy.status = "threw"
             \/ legacy.value[1] = "null"
             \/ projects[1] # "array"
          THEN /\ mig' = [m EXCEPT !.pc = "threw"]
               /\ UNCHANGED <<writes, dirs, overlapped>>
          ELSE MigrateNext([m EXCEPT !.projects = projects[2]])
       /\ UNCHANGED <<proc, debounceTimers, pendingWrites, timers, flushCall, files, inodes,
                      nCalls, lastSched, superseded, deleted, blobVars, loads, appLoad>>

\* A migration that does not await its writes: it goes on while the
\* atomicWrite it started is still in flight.
MigrateResumeEarly ==
    LET p == mig.projects[mig.k]
        entry == Obj([id |-> Get(p, "id"), name |-> Get(p, "name"),
                      updatedAt |-> Num(mig.now)])
    IN /\ Alive
       /\ mig.pc \in {"project", "appState"}
       /\ IF writes[mig.w].pc = "failed"
          THEN /\ mig' = [mig EXCEPT !.pc = "threw", !.result = Thrown]
               /\ UNCHANGED <<writes, dirs, overlapped>>
          ELSE IF mig.pc = "appState"
          THEN /\ mig' = [mig EXCEPT !.pc = "returned", !.returns = mig.returns + 1]
               /\ UNCHANGED <<writes, dirs, overlapped>>
          ELSE MigrateNext([mig EXCEPT !.projectIndex = Append(mig.projectIndex, entry)])
       /\ UNCHANGED <<proc, debounceTimers, pendingWrites, timers, flushCall, files, inodes,
                      nCalls, lastSched, superseded, deleted, blobVars, loads, appLoad>>

\* migrateLegacyState resumes when the atomicWrite it awaits has settled: a
\* failed write rejects the call; after a project file, projectIndex.push
\* and the next turn of the loop; after app-state.json, return appState.
MigrateResume ==
    LET p == mig.projects[mig.k]
        entry == Obj([id |-> Get(p, "id"), name |-> Get(p, "name"),
                      updatedAt |-> Num(mig.now)])
    IN /\ Alive
       /\ mig.pc \in {"project", "appState"}
       /\ writes[mig.w].pc \in {"done", "failed"}
       /\ IF writes[mig.w].pc = "failed"
          THEN /\ mig' = [mig EXCEPT !.pc = "threw", !.result = Thrown]
               /\ UNCHANGED <<writes, dirs, overlapped>>
          ELSE IF mig.pc = "appState"
          THEN /\ mig' = [mig EXCEPT !.pc = "returned", !.returns = mig.returns + 1]
               /\ UNCHANGED <<writes, dirs, overlapped>>
          ELSE MigrateNext([mig EXCEPT !.projectIndex = Append(mig.projectIndex, entry)])
       /\ UNCHANGED <<proc, debounceTimers, pendingWrites, timers, flushCall, files, inodes,
                      nCalls, lastSched, superseded, deleted, blobVars, loads, appLoad>>

\* ----------------------------------------------------------------- inputs

\* Messages, sessions and threads of the files and states below.
Message1 ==
    Obj([id |-> Str("m1"), role |-> Str("user"), content |-> Str("hello"),
         createdAt |-> Num(1), meta |-> Str("note")])

Message2 ==
    Obj([id |-> Str("m2"), role |-> Str("assistant"), content |-> Str("world"),
         createdAt |-> Num(2)])

\* A session as the renderer creates it: activeDocumentId null.
Session1 ==
    Obj([id |-> Str("s1"), title |-> Str("New Session"), messages |-> Arr(<<>>),
         activeDocumentId |-> JNull, lastUpdated |-> Num(1)])

\* A session with an active document.
Session2 ==
    Obj([id |-> Str("s2"), title |-> Str("Report"), messages |-> Arr(<<Message1, Message2>>),
         activeDocumentId |-> Str("d1"), lastUpdated |-> Num(2)])

\* A session of the flat schema: no activeDocumentId.
Session3 ==
    Obj([id |-> Str("s3"), title |-> Str("Notes"), messages |-> Arr(<<Message2>>),
         lastUpdated |-> Num(3)])

Thread1 ==
    Obj([id |-> Str("t1"), title |-> Str("Thread"), messages |-> Arr(<<Message1>>),
         documents |-> Arr(<<>>), activeDocumentId |-> JNull, lastUpdated |-> Num(4)])

\* project.json in the 'sessions' schema, with the sessions given.
SessionsProject(sessions) ==
    Obj([id |-> Str("p1"), name |-> Str("Document Pilot"), documents |-> Arr(<<>>),
         sessions |-> sessions, createdAt |-> Num(1), updatedAt |-> Num(2)])

\* project.json in the 'threads' schema.
ThreadsProject ==
    Obj([id |-> Str("p1"), name |-> Str("Document Pilot"), documents |-> Arr(<<>>),
         threads |-> Arr(<<Thread1>>), createdAt |-> Num(1), updatedAt |-> Num(2)])

\* The project.json files a run can start from: none, a text that is not
\* JSON, files in the 'sessions' schema (the sessions null, as the renderer
\* writes them, and of the flat schema), a file in the 'threads' schema.
NoFile == [nofile |-> TRUE]

ProjectFiles ==
    {NoFile, BadText,
     JSONstringify(SessionsProject(JNull)),
     JSONstringify(SessionsProject(Arr(<<Session1>>))),
     JSONstringify(SessionsProject(Arr(<<Session3, Session2>>))),
     JSONstringify(ThreadsProject)}

Shortcuts(key) == Obj(MapSet([sendMessage |-> Str("Meta+Enter")], key, Str("Meta+Shift+N")))

Settings(shortcuts) ==
    Obj([model |-> Str("gpt-5-mini"), reasoningEffort |-> Str("high"), shortcuts |-> shortcuts])

\* An application state in the schema of contracts.ts.
AppState1 ==
    Obj([projectIndex |-> Arr(<<>>), threads |-> Arr(<<>>), activeProjectId |-> JNull,
         activeThreadId |-> Str(""), settings |-> Settings(Shortcuts("newThread"))])

AppState2 ==
    Obj([projectIndex |-> Arr(<<Obj([id |-> Str("p1"), name |-> Str("Document Pilot"),
                                     updatedAt |-> Num(2)])>>),
         threads |-> Arr(<<Thread1>>), activeProjectId |-> Str("p1"),
         activeThreadId |-> Str("s1"), settings |-> Settings(Shortcuts("newThread"))])

ValidAppStates == {AppState1, AppState2}

\* An application state under the old names, as the renderer saves it.
OldAppState ==
    Obj([projectIndex |-> Arr(<<>>), globalThreads |-> Arr(<<Thread1>>),
         activeProjectId |-> JNull, activeSessionId |-> Str("t1"),
         settings |-> Settings(Shortcuts("newSession"))])

\* A state that has the old names and the new ones, with different values.
BothAppState ==
    Obj([projectIndex |-> Arr(<<>>), globalThreads |-> Arr(<<Thread1>>), threads |-> Arr(<<>>),
         activeProjectId |-> JNull, activeSessionId |-> Str("t1"), activeThreadId |-> Str("t2"),
         settings |-> Settings(Obj([sendMessage |-> Str("Meta+Enter"),
                                    newSession |-> Str("Meta+N"),
                                    newThread |-> Str("Meta+Shift+N")]))])

\* States with only some of the old names, without settings, and with
\* settings.shortcuts a string.
PartAppState ==
    Obj([projectIndex |-> Arr(<<>>), threads |-> Arr(<<>>), activeSessionId |-> Str("t1")])

OddAppState ==
    Obj([projectIndex |-> Arr(<<>>), globalThreads |-> Arr(<<>>),
         settings |-> Settings(Str("Meta+Enter"))])

AppStateFiles ==
    {NoFile, BadText} \cup
    {JSONstringify(s) : s \in {AppState2, OldAppState, BothAppState, PartAppState, OddAppState}}

\* Date.now() at a migration.
Times == {5000, 6000}

\* Sessions of the legacy renderer state (SessionState: id, title, messages,
\* lastUpdated and the chart of the session).
LegacySession1 ==
    Obj([id |-> Str("s1"), title |-> Str("Goals"), messages |-> Arr(<<Message1, Message2>>),
         lastUpdated |-> Num(1000), chart |-> Obj([points |-> Arr(<<>>)])])

LegacySession2 ==
    Obj([id |-> Str("s2"), title |-> Str("New Session"), messages |-> Arr(<<>>),
         lastUpdated |-> Num(2000)])

LegacySession3 ==
    Obj([id |-> Str("s3"), title |-> Str("Costs"), messages |-> Arr(<<Message2>>),
         lastUpdated |-> Num(3000)])

LegacyProject1 ==
    Obj([id |-> Str("p1"), name |-> Str("Soccer"),
         sessions |-> Arr(<<LegacySession1, LegacySession2>>), createdAt |-> Num(900)])

LegacyProject2 ==
    Obj([id |-> Str("p2"), name |-> Str("Budget"),
         sessions |-> Arr(<<LegacySession3>>), createdAt |-> Num(950)])

\* A project without sessions, and a record without a sessions list.
LegacyProject3 ==
    Obj([id |-> Str("p3"), name |-> Str("Empty"), sessions |-> Arr(<<>>),
         createdAt |-> Num(960)])

LegacyProjectNoSessions ==
    Obj([id |-> Str("p2"), name |-> Str("Budget"), createdAt |-> Num(950)])

\* The legacy states given to migrateLegacyState: no projects; one project
\* with both active ids and settings of its own; two projects and no active
\* id; a first project without sessions; only the active project named (not
\* the first one); active ids that are null; a second record without
\* sessions; a legacy null.
LegacyStates ==
    {Obj(EmptyMap),
     Obj([projects |-> Arr(<<LegacyProject1>>), activeProjectId |-> Str("p1"),
          activeSessionId |-> Str("s2"), settings |-> Settings(Shortcuts("newSession"))]),
     Obj([projects |-> Arr(<<LegacyProject1, LegacyProject2>>)]),
     Obj([projects |-> Arr(<<LegacyProject3, LegacyProject2>>)]),
     Obj([projects |-> Arr(<<LegacyProject1, LegacyProject2>>), activeProjectId |-> Str("p2")]),
     Obj([projects |-> Arr(<<LegacyProject2>>), activeProjectId |-> JNull,
          activeSessionId |-> JNull]),
     Obj([projects |-> Arr(<<LegacyProject1, LegacyProjectNoSessions>>)]),
     JNull}

\* The texts of the legacy blob: the states above, and a text that is not JSON.
LegacyTexts == {BadText} \cup {JSONstringify(s) : s \in LegacyStates}

\* --------------------------------------------------------------- renderer

\* uid('project'), uid('session') at the two places where boot() makes a
\* fresh project: ids no file and no state of an earlier run holds (the
\* ids numbered 1 and 2 of the run).
FreshProjectId == "project-1"

FreshSessionId == "session-1"

FreshProjectId2 == "project-2"

FreshSessionId2 == "session-2"

\* No renderer handler is awaiting the main process.
Idle == [kind |-> "idle"]

\* { kind: 'project', projectId, sessionId } and { kind: 'global-thread', threadId }
ProjectContext(projectId, sessionId) ==
    [kind |-> "project", projectId |-> projectId, sessionId |-> sessionId,
     threadId |-> Undefined]

ThreadContext(threadId) ==
    [kind |-> "global-thread", projectId |-> Undefined, sessionId |-> Undefined,
     threadId |-> threadId]

\* let appState = null; let activeProject = null;
\* let activeContext = { kind: 'project', projectId: '', sessionId: '' };
\* with localStorage holding the legacy blob given, or none.
RendererStart(legacy) ==
    /\ boot = [pc |-> "start", legacy |-> legacy, l |-> 0, now |-> 0, launch |-> 1]
    /\ appState = JNull
    /\ activeProject = JNull
    /\ activeContext = ProjectContext(Str(""), Str(""))
    /\ op = Idle
    /\ ipc = <<>>
    /\ nUids = 2

\* x.length, x[0], x.some(...), x.find(...), x.filter(...) throw a TypeError
\* when x is undefined or null.
NoProps(x) == x[1] \in {"undefined", "null"}

Length(x) == IF x[1] = "array" THEN Len(x[2]) ELSE 0

First(x) == IF x[1] = "array" /\ x[2] # <<>> THEN x[2][1] ELSE Undefined

\* list.some((s) => s.id === id)
SomeId(list, id) == list[1] = "array" /\ \E i \in DOMAIN list[2] : Get(list[2][i], "id") = id

\* { ...DEFAULT_SETTINGS } of the renderer.
DEFAULT_SETTINGS == Settings(Shortcuts("newSession"))

\* The session and the project boot() and createProject() make.
NewSession(sessionId, now) ==
    Obj([id |-> Str(sessionId), title |-> Str("New Session"), messages |-> Arr(<<>>),
         activeDocumentId |-> JNull, lastUpdated |-> Num(now)])

NewProject(projectId, sessionId, now) ==
    Obj([id |-> Str(projectId), name |-> Str("Document Pilot"), documents |-> Arr(<<>>),
         sessions |-> Arr(<<NewSession(sessionId, now)>>),
         createdAt |-> Num(now), updatedAt |-> Num(now)])

IndexEntry(projectId, name, now) ==
    Obj([id |-> Str(projectId), name |-> Str(name), updatedAt |-> Num(now)])

\* api.saveProject({ project }) and api.saveAppState({ state }): the message
\* ipcRenderer.invoke sends, with the value serialized at the call.
saveProjectMessage(project) == [channel |-> "save-project", value |-> project]

saveAppStateMessage(state) == [channel |-> "save-app-state", value |-> state]

\* The 'save-project' and 'save-app-state' handlers of the main process, on
\* the oldest message not yet handled: storage.saveProject(payload.project),
\* storage.saveAppState(payload.state).
MainSave ==
    LET m == Head(ipc)
        projectId == Chars(Get(m.value, "id")[2])
    IN /\ Alive
       /\ ipc # <<>>
       /\ nCalls < MaxSaves
       /\ ipc' = Tail(ipc)
       /\ IF m.channel = "save-project"
          THEN debouncedWrite(projectKey(projectId), projectJsonPath(projectId),
                              JSONstringify(m.value))
          ELSE debouncedWrite(appStateKey, appStatePath, JSONstringify(m.value))
       /\ UNCHANGED <<proc, writes, flushCall, dirs, files, inodes, overlapped, deleted,
                      blobVars, loadVars, boot, appState, activeProject, activeContext, op>>

\* Step 3 of boot(): the fresh state and its project, whose file is saved.
BootFresh(now) ==
    /\ appState' = Obj([projectIndex |-> Arr(<<IndexEntry(FreshProjectId, "Document Pilot", now)>>),
                        globalThreads |-> Arr(<<>>),
                        activeProjectId |-> Str(FreshProjectId),
                        activeSessionId |-> Str(FreshSessionId),
                        settings |-> DEFAULT_SETTINGS])
    /\ activeProject' = NewProject(FreshProjectId, FreshSessionId, now)
    /\ ipc' = Append(ipc, saveProjectMessage(activeProject'))
    /\ boot' = [boot EXCEPT !.pc = "restore", !.now = now]
    /\ UNCHANGED <<storeVars, blobVars, loadVars, activeContext, op>>

\* boot(), steps 1 to 3: loadAppState; without a state, the legacy blob of
\* localStorage is handed to migrateLegacyState, which boot awaits; without
\* a blob, the fresh state.
BootStart(now) ==
    LET loadedState == loadAppState.value
    IN /\ Alive
       /\ boot.pc = "start"
       /\ IF ~Falsy(loadedState)
          THEN /\ appState' = loadedState
               /\ boot' = [boot EXCEPT !.pc = "restore", !.now = now]
               /\ UNCHANGED <<storeVars, blobVars, loadVars, activeProject, activeContext, op, ipc>>
          ELSE IF boot.legacy # NoFile
          THEN /\ MigrateCall(boot.legacy, now)
               /\ boot' = [boot EXCEPT !.pc = "migrating", !.now = now]
               /\ UNCHANGED <<appState, activeProject, activeContext, op, ipc>>
          ELSE BootFresh(now)

\* boot() resumes when migrateLegacyState has settled: result.appState is the
\* loaded state; a rejected call is caught and the fresh state made.
BootMigrated ==
    /\ Alive
    /\ boot.pc = "migrating"
    /\ mig.pc \in {"returned", "threw"}
    /\ IF mig.pc = "returned"
       THEN /\ appState' = mig.result.value
            /\ boot' = [boot EXCEPT !.pc = "restore", !.legacy = NoFile]
            /\ UNCHANGED <<storeVars, blobVars, loadVars, activeProject, activeContext, op, ipc>>
       ELSE BootFresh(boot.now)

\* boot() rejects with a TypeError: an unhandled rejection, the handlers stay
\* attached and the state is what the steps before it left.
BootThrows ==
    /\ boot' = [boot EXCEPT !.pc = "threw"]
    /\ UNCHANGED <<storeVars, blobVars, loadVars, appState, activeContext, op, ipc>>

\* The end of boot(): void saveAppState().
BootEnds ==
    /\ boot' = [boot EXCEPT !.pc = "done"]
    /\ ipc' = Append(ipc, saveAppStateMessage(appState'))
    /\ UNCHANGED <<storeVars, blobVars, loadVars>>

\* const { project } = await api.loadProject({ projectId }): the call, made
\* when the main process has handled the messages sent before it.
CallLoadProject(projectId) ==
    /\ ipc = <<>>
    /\ LoadProject(Chars(projectId[2]))

\* switchToProject(projectId) up to its await of api.loadProject; it may run
\* while sendPrompt() awaits its answer.
StartSwitch(projectId) ==
    /\ CallLoadProject(projectId)
    /\ op' = [kind |-> "switchToProject", projectId |-> projectId, l |-> Len(loads) + 1,
              chat |-> op.kind = "chat"]

\* boot(), step 4, up to its await of api.loadProject or, without an active
\* project, to its end.
BootRestore ==
    LET projectId == Get(appState, "activeProjectId")
        activeSessionId == Get(appState, "activeSessionId")
        globalThreads == Get(appState, "globalThreads")
        projectIndex == Get(appState, "projectIndex")
        threadId == IF ~Falsy(activeSessionId) /\ SomeId(globalThreads, activeSessionId)
                    THEN activeSessionId ELSE Get(First(globalThreads), "id")
    IN /\ Alive
       /\ boot.pc = "restore"
       /\ IF ~Falsy(projectId)
          THEN /\ op = Idle
               /\ CallLoadProject(projectId)
               /\ boot' = [boot EXCEPT !.pc = "loading", !.l = Len(loads) + 1]
               /\ UNCHANGED <<appState, activeProject, activeContext, op, ipc>>
          ELSE IF NoProps(globalThreads)
          THEN BootThrows /\ UNCHANGED activeProject
          ELSE IF Length(globalThreads) > 0
          THEN /\ activeContext' = ThreadContext(threadId)
               /\ UNCHANGED <<appState, activeProject, op>>
               /\ BootEnds
          ELSE IF NoProps(projectIndex)
          THEN BootThrows /\ UNCHANGED activeProject
          ELSE IF Length(projectIndex) > 0
          THEN /\ StartSwitch(Get(First(projectIndex), "id"))
               /\ boot' = [boot EXCEPT !.pc = "done"]
               /\ ipc' = Append(ipc, saveAppStateMessage(appState))
               /\ UNCHANGED <<appState, activeProject, activeContext>>
          ELSE /\ UNCHANGED <<appState, activeProject, activeContext, op>>
               /\ BootEnds

\* boot(), step 4, from the return of api.loadProject: the active session is
\* kept or repaired on a project that loaded; without one, the first global
\* thread or a second fresh project.
BootLoaded ==
    LET projectId == Get(appState, "activeProjectId")
        activeSessionId == Get(appState, "activeSessionId")
        globalThreads == Get(appState, "globalThreads")
        project == loads[boot.l].result.value
        sessions == Get(project, "sessions")
        sessionId == IF ~Falsy(activeSessionId) /\ SomeId(sessions, activeSessionId)
                     THEN activeSessionId
                     ELSE Coalesce(Get(First(sessions), "id"), Str(""))
        now == boot.now
    IN /\ Alive
       /\ boot.pc = "loading"
       /\ loads[boot.l].pc = "returned"
       /\ IF ~Falsy(project)
          THEN /\ activeProject' = project
               /\ IF \/ NoProps(sessions)
                     \/ ~Falsy(activeSessionId) /\ sessions[1] # "array"
                  THEN BootThrows
                  ELSE /\ activeContext' = ProjectContext(projectId, sessionId)
                       /\ appState' = Set(appState, "activeSessionId", sessionId)
                       /\ UNCHANGED op
                       /\ BootEnds
          ELSE IF NoProps(globalThreads)
          THEN /\ activeProject' = project
               /\ BootThrows
          ELSE IF Length(globalThreads) > 0
          THEN /\ activeProject' = project
               /\ activeContext' = ThreadContext(Get(First(globalThreads), "id"))
               /\ UNCHANGED <<appState, op>>
               /\ BootEnds
          ELSE /\ appState' =
                     Set(Set(Set(appState, "projectIndex",
                                 Arr(<<IndexEntry(FreshProjectId2, "Document Pilot", now)>>)),
                             "activeProjectId", Str(FreshProjectId2)),
                         "activeSessionId", Str(FreshSessionId2))
               /\ activeProject' = NewProject(FreshProjectId2, FreshSessionId2, now)
               /\ activeContext' = ProjectContext(Str(FreshProjectId2), Str(FreshSessionId2))
               /\ boot' = [boot EXCEPT !.pc = "done"]
               /\ ipc' = ipc \o <<saveProjectMessage(activeProject'),
                                  saveAppStateMessage(appState')>>
               /\ UNCHANGED <<storeVars, blobVars, loadVars, op>>

\* switchToProject(projectId) from the return of api.loadProject: nothing on
\* a project that did not load; project.sessions[0] is a TypeError on a
\* project without sessions, after activeProject was assigned.
SwitchLoaded ==
    LET projectId == op.projectId
        project == loads[op.l].result.value
        sessions == Get(project, "sessions")
        sessionId == Coalesce(Get(First(sessions), "id"), Str(""))
    IN /\ Alive
       /\ op.kind = "switchToProject"
       /\ loads[op.l].pc = "returned"
       /\ op' = IF op.chat THEN [kind |-> "chat"] ELSE Idle
       /\ IF Falsy(project)
          THEN UNCHANGED <<appState, activeProject, activeContext, ipc>>
          ELSE /\ activeProject' = project
               /\ IF NoProps(sessions)
                  THEN UNCHANGED <<appState, activeContext, ipc>>
                  ELSE /\ activeContext' = ProjectContext(projectId, sessionId)
                       /\ appState' = Set(Set(appState, "activeProjectId", projectId),
                                          "activeSessionId", sessionId)
                       /\ ipc' = Append(ipc, saveAppStateMessage(appState'))
       /\ UNCHANGED <<storeVars, blobVars, loadVars, boot>>

\* uid(prefix): the n-th id of a run.
Uid(prefix, n) == prefix \o "-" \o ToString(n)

\* The document id uid('doc') gives, by its characters.
DocIdChars(n) ==
    <<"d", "o", "c", "-">> \o <<(<<"0", "1", "2", "3", "4", "5", "6", "7", "8", "9">>)[n + 1]>>

\* A string given by its characters (file names, stored names).
Text(chars) == <<"string", chars>>

\* The renderer's appState, activeProject and activeContext, as one value.
Memory == [appState |-> appState, activeProject |-> activeProject,
           activeContext |-> activeContext]

Assign(r) ==
    /\ appState' = r.appState
    /\ activeProject' = r.activeProject
    /\ activeContext' = r.activeContext

\* list.find((x) => x.id === id), list.filter((x) => x.id !== id),
\* list.unshift(x), list.push(x)
IndexOfId(list, id) ==
    IF SomeId(list, id)
    THEN CHOOSE i \in DOMAIN list[2] :
             /\ Get(list[2][i], "id") = id
             /\ \A j \in 1..(i - 1) : Get(list[2][j], "id") # id
    ELSE 0

FindId(list, id) == IF SomeId(list, id) THEN list[2][IndexOfId(list, id)] ELSE Undefined

FilterNotId(list, id) == Arr(SelectSeq(list[2], LAMBDA x : Get(x, "id") # id))

Unshift(list, x) == Arr(<<x>> \o list[2])

Push(list, x) == Arr(Append(list[2], x))

\* The ids of a list of records.
IdsOf(list) == IF list[1] = "array" THEN {Get(list[2][i], "id") : i \in DOMAIN list[2]} ELSE {}

\* list.find((x) => x.id === id)[key] = value, on the list under listKey of
\* the object given.
SetInList(obj, listKey, id, key, value) ==
    LET list == Get(obj, listKey)
        i == IndexOfId(list, id)
    IN Set(obj, listKey, Arr([list[2] EXCEPT ![i] = Set(list[2][i], key, value)]))

\* getActiveThread(), getActiveSession()
getActiveThread(r) ==
    IF r.activeContext.kind # "global-thread" \/ Falsy(r.appState) THEN JNull
    ELSE Coalesce(FindId(Get(r.appState, "globalThreads"), r.activeContext.threadId), JNull)

getActiveSession(r) ==
    IF r.activeContext.kind # "project" \/ Falsy(r.activeProject) THEN JNull
    ELSE Coalesce(FindId(Get(r.activeProject, "sessions"), r.activeContext.sessionId), JNull)

\* getActiveDocuments(), getActiveDocumentId()
getActiveDocuments(r) ==
    IF r.activeContext.kind = "global-thread"
    THEN Coalesce(Get(getActiveThread(r), "documents"), Arr(<<>>))
    ELSE Coalesce(Get(r.activeProject, "documents"), Arr(<<>>))

getActiveDocumentId(r) ==
    IF r.activeContext.kind = "global-thread"
    THEN Coalesce(Get(getActiveThread(r), "activeDocumentId"), JNull)
    ELSE Coalesce(Get(getActiveSession(r), "activeDocumentId"), JNull)

\* The active thread or session with one of its properties set.
SetInActive(r, key, value) ==
    IF r.activeContext.kind = "global-thread"
    THEN IF Falsy(getActiveThread(r)) THEN r
         ELSE [r EXCEPT !.appState = SetInList(r.appState, "globalThreads",
                                               r.activeContext.threadId, key, value)]
    ELSE IF Falsy(getActiveSession(r)) THEN r
         ELSE [r EXCEPT !.activeProject = SetInList(r.activeProject, "sessions",
                                                    r.activeContext.sessionId, key, value)]

\* setActiveDocumentId(docId)
setActiveDocumentId(r, docId) == SetInActive(r, "activeDocumentId", docId)

\* saveAppState(), saveAll(): the messages they send.
saveAppState(r) == IF Falsy(r.appState) THEN <<>> ELSE <<saveAppStateMessage(r.appState)>>

saveAll(r) ==
    saveAppState(r) \o
        (IF r.activeContext.kind = "project" /\ ~Falsy(r.activeProject)
         THEN <<saveProjectMessage(r.activeProject)>> ELSE <<>>)

\* The handlers are attached and boot() is over, and the main process, idle
\* between the events of the window, has handled the saves sent so far.
Ready ==
    /\ Alive
    /\ boot.pc \in {"done", "threw"}
    /\ ~Falsy(appState)
    /\ ipc = <<>>

HasSessions == ~Falsy(activeProject) /\ Get(activeProject, "sessions")[1] = "array"

\* A synchronous handler that leaves the memory r and sends the messages given.
Handled(r, messages) ==
    /\ Assign(r)
    /\ ipc' = ipc \o messages
    /\ UNCHANGED <<storeVars, blobVars, loadVars, boot, op>>

\* createSession(projectId), on the active project.
CreateSession ==
    LET sessionId == Str(Uid("session", nUids + 1))
        projectId == Get(activeProject, "id")
        r == [appState |-> Set(appState, "activeSessionId", sessionId),
              activeProject |-> Set(activeProject, "sessions",
                                    Unshift(Get(activeProject, "sessions"),
                                            NewSession(sessionId[2], boot.now))),
              activeContext |-> ProjectContext(projectId, sessionId)]
    IN /\ Ready
       /\ HasSessions
       /\ nUids < MaxUids
       /\ nUids' = nUids + 1
       /\ Handled(r, saveAll(r))

\* switchSession(projectId, sessionId), on a session of the active project.
SwitchSession(sessionId) ==
    LET projectId == Get(activeProject, "id")
        r == [Memory EXCEPT !.appState = Set(appState, "activeSessionId", sessionId),
                            !.activeContext = ProjectContext(projectId, sessionId)]
    IN /\ Ready
       /\ HasSessions
       /\ activeContext.kind = "project"
       /\ activeContext.projectId = projectId
       /\ SomeId(Get(activeProject, "sessions"), sessionId)
       /\ Handled(r, saveAppState(r))
       /\ UNCHANGED nUids

\* deleteSession(projectId, sessionId), confirmed, on a session of the active
\* project: refused on the only session.
DeleteSession(sessionId) ==
    LET projectId == Get(activeProject, "id")
        sessions == FilterNotId(Get(activeProject, "sessions"), sessionId)
        nextSession == Get(First(sessions), "id")
        r1 == [Memory EXCEPT !.activeProject = Set(activeProject, "sessions", sessions)]
        r == IF activeContext.kind = "project" /\ activeContext.sessionId = sessionId
             THEN [r1 EXCEPT !.activeContext = ProjectContext(projectId, nextSession),
                             !.appState = Set(appState, "activeSessionId", nextSession)]
             ELSE r1
    IN /\ Ready
       /\ HasSessions
       /\ SomeId(Get(activeProject, "sessions"), sessionId)
       /\ Length(Get(activeProject, "sessions")) > 1
       /\ Handled(r, saveAll(r))
       /\ UNCHANGED nUids

HasThreads == Get(appState, "globalThreads")[1] = "array"

NewThread(threadId, now) ==
    Obj([id |-> Str(threadId), title |-> Str("New Thread"), messages |-> Arr(<<>>),
         documents |-> Arr(<<>>), activeDocumentId |-> JNull, lastUpdated |-> Num(now)])

\* The body of switchToThread(threadId), on a thread of the list.
switchToThread(r, threadId) ==
    [appState |-> Set(Set(r.appState, "activeProjectId", JNull), "activeSessionId", threadId),
     activeProject |-> JNull,
     activeContext |-> ThreadContext(threadId)]

\* createGlobalThread()
CreateGlobalThread ==
    LET threadId == Str(Uid("thread", nUids + 1))
        r == switchToThread(
                 [Memory EXCEPT !.appState =
                     Set(appState, "globalThreads",
                         Unshift(Get(appState, "globalThreads"),
                                 NewThread(threadId[2], boot.now)))],
                 threadId)
    IN /\ Ready
       /\ HasThreads
       /\ nUids < MaxUids
       /\ nUids' = nUids + 1
       /\ Handled(r, saveAppState(r))

\* switchToThread(threadId)
SwitchToThread(threadId) ==
    LET r == switchToThread(Memory, threadId)
    IN /\ Ready
       /\ HasThreads
       /\ SomeId(Get(appState, "globalThreads"), threadId)
       /\ Handled(r, saveAppState(r))
       /\ UNCHANGED nUids

\* The body of createProject(), the name given at the prompt.
createProject(r, n, now) ==
    LET projectId == Uid("project", n)
        sessionId == Uid("session", n)
    IN [appState |-> Set(Set(Set(r.appState, "projectIndex",
                                 Unshift(Get(r.appState, "projectIndex"),
                                         IndexEntry(projectId, "New Project", now))),
                             "activeProjectId", Str(projectId)),
                         "activeSessionId", Str(sessionId)),
        activeProject |-> Set(NewProject(projectId, sessionId, now), "name", Str("New Project")),
        activeContext |-> ProjectContext(Str(projectId), Str(sessionId))]

\* createProject()
CreateProject ==
    LET r == createProject(Memory, nUids + 1, boot.now)
    IN /\ Ready
       /\ Get(appState, "projectIndex")[1] = "array"
       /\ nUids < MaxUids
       /\ nUids' = nUids + 1
       /\ Handled(r, saveAll(r))

\* saveSettings(), with the model typed in the dialog (the reasoning effort
\* and the shortcuts are left as the dialog shows them for the defaults):
\* appState.settings is replaced and the application state saved.
SaveSettings(model) ==
    LET settings == Obj([model |-> Str(model), reasoningEffort |-> Str("high"),
                         shortcuts |-> Shortcuts("newSession")])
        r == [Memory EXCEPT !.appState = Set(appState, "settings", settings)]
    IN /\ Ready
       /\ Handled(r, saveAppState(r))
       /\ UNCHANGED nUids

\* switchToProject(projectId), on a project of the index.
SwitchToProject(projectId) ==
    /\ Ready
    /\ op.kind \in {"idle", "chat"}
    /\ SomeId(Get(appState, "projectIndex"), projectId)
    /\ StartSwitch(projectId)
    /\ UNCHANGED <<boot, appState, activeProject, activeContext, ipc, nUids>>

\* fs.rm(path, { force: true }) of deleteDocument: the entry goes, unless the
\* call is rejected (EACCES, EBUSY); a missing file is no error.
Unlink(paths) ==
    /\ files' = [p \in DOMAIN files \ paths |-> files[p]]
    /\ inodes' = Reclaim(inodes, files', writes)
    /\ docs' = {d \in docs : pathJoin(DocsDirOf(d.targetId), <<d.storedFileName>>) \notin paths}
    /\ readResult' = NoRead
    /\ UNCHANGED <<proc, debounceTimers, pendingWrites, timers, writes, flushCall, dirs,
                   nCalls, lastSched, superseded, overlapped, deleted, nCopies, uploads,
                   loadVars>>

\* The path api.deleteDocument({ targetId, storedFileName }) removes.
DocumentPath(targetId, storedFileName) ==
    pathJoin(DocsDirOf(Chars(targetId[2])), <<sanitizeFileName(storedFileName[2])>>)

\* deleteThread(threadId), confirmed, up to the return of its last
\* api.deleteDocument: the blobs of the thread's documents are removed, a
\* rejected call being swallowed.
DeleteThread(threadId) ==
    LET thread == FindId(Get(appState, "globalThreads"), threadId)
        documents == Get(thread, "documents")[2]
        paths == {DocumentPath(threadId, Get(documents[i], "storedFileName")) :
                     i \in DOMAIN documents}
    IN /\ Ready
       /\ op = Idle
       /\ HasThreads
       /\ SomeId(Get(appState, "globalThreads"), threadId)
       /\ \E rejected \in SUBSET paths : Unlink(paths \ rejected)
       /\ op' = [kind |-> "deleteThread", threadId |-> threadId]
       /\ UNCHANGED <<boot, appState, activeProject, activeContext, ipc, nUids>>

\* deleteThread(threadId) from its last await: the thread leaves the list;
\* when it was the active one, the first thread left, else the first project
\* (a switch is started), else a new project.
DeleteThreadEnds ==
    LET threadId == op.threadId
        threads == FilterNotId(Get(appState, "globalThreads"), threadId)
        projectIndex == Get(appState, "projectIndex")
        r1 == [Memory EXCEPT !.appState = Set(appState, "globalThreads", threads)]
        wasActive == activeContext.kind = "global-thread" /\ activeContext.threadId = threadId
        r2 == switchToThread(r1, Get(First(threads), "id"))
        r3 == createProject(r1, nUids + 1, boot.now)
    IN /\ Ready
       /\ op.kind = "deleteThread"
       /\ IF ~wasActive
          THEN /\ Assign(r1)
               /\ ipc' = ipc \o saveAppState(r1)
               /\ op' = Idle
               /\ UNCHANGED <<storeVars, blobVars, loadVars, nUids>>
          ELSE IF Length(threads) > 0
          THEN /\ Assign(r2)
               /\ ipc' = ipc \o saveAppState(r2) \o saveAppState(r2)
               /\ op' = Idle
               /\ UNCHANGED <<storeVars, blobVars, loadVars, nUids>>
          ELSE IF Length(projectIndex) > 0
          THEN /\ StartSwitch(Get(First(projectIndex), "id"))
               /\ Assign(r1)
               /\ ipc' = ipc \o saveAppState(r1)
               /\ UNCHANGED nUids
          ELSE /\ nUids < MaxUids
               /\ nUids' = nUids + 1
               /\ Assign(r3)
               /\ ipc' = ipc \o saveAll(r3) \o saveAppState(r3)
               /\ op' = Idle
               /\ UNCHANGED <<storeVars, blobVars, loadVars>>
       /\ UNCHANGED boot

\* deleteProject(projectId), confirmed, on a project of the index, up to the
\* return of api.deleteProject, whose rejection is swallowed.
DeleteProjectStarts(projectId) ==
    /\ Ready
    /\ op = Idle
    /\ SomeId(Get(appState, "projectIndex"), projectId)
    /\ ipc = <<>>
    /\ \/ /\ DeleteProject(Chars(projectId[2]))
          /\ docs' = {d \in docs :
                         pathJoin(DocsDirOf(d.targetId), <<d.storedFileName>>) \in DOMAIN files'}
          /\ UNCHANGED <<readResult, nCopies, uploads>>
       \/ UNCHANGED <<storeVars, blobVars>>
    /\ op' = [kind |-> "deleteProject", projectId |-> projectId]
    /\ UNCHANGED <<loadVars, boot, appState, activeProject, activeContext, ipc, nUids>>

\* deleteProject(projectId) from its await: the project leaves the index;
\* when it was the active one, the first project left (a switch is
\* started), else the first thread, else a new project.
DeleteProjectEnds ==
    LET projectId == op.projectId
        projectIndex == FilterNotId(Get(appState, "projectIndex"), projectId)
        threads == Get(appState, "globalThreads")
        r1 == [Memory EXCEPT !.appState = Set(appState, "projectIndex", projectIndex)]
        wasActive == activeContext.kind = "project" /\ activeContext.projectId = projectId
        r2 == switchToThread(r1, Get(First(threads), "id"))
        r3 == createProject(r1, nUids + 1, boot.now)
    IN /\ Ready
       /\ op.kind = "deleteProject"
       /\ HasThreads
       /\ IF ~wasActive
          THEN /\ Assign(r1)
               /\ ipc' = ipc \o saveAppState(r1)
               /\ op' = Idle
               /\ UNCHANGED <<storeVars, blobVars, loadVars, nUids>>
          ELSE IF Length(projectIndex) > 0
          THEN /\ StartSwitch(Get(First(projectIndex), "id"))
               /\ Assign(r1)
               /\ ipc' = ipc \o saveAppState(r1)
               /\ UNCHANGED nUids
          ELSE IF Length(threads) > 0
          THEN /\ Assign(r2)
               /\ ipc' = ipc \o saveAppState(r2) \o saveAppState(r2)
               /\ op' = Idle
               /\ UNCHANGED <<storeVars, blobVars, loadVars, nUids>>
          ELSE /\ nUids < MaxUids
               /\ nUids' = nUids + 1
               /\ Assign(r3)
               /\ ipc' = ipc \o saveAll(r3) \o saveAppState(r3)
               /\ op' = Idle
               /\ UNCHANGED <<storeVars, blobVars, loadVars>>
       /\ UNCHANGED boot

\* The file the user attaches: its name and its content.
AttachedName == <<"r", "e", "p", "o", "r", "t", ".", "p", "d", "f">>

\* The StoredDocument copyDocument returns, as the renderer receives it.
StoredDocument(doc, n, now) ==
    Obj([id |-> Str(Uid("doc", n)), originalFileName |-> Text(doc.originalFileName),
         storedFileName |-> Text(doc.storedFileName), kind |-> Str(doc.kind),
         sizeBytes |-> Num(1), addedAt |-> Num(now)])

\* attachDocumentToCurrentContext(file) up to the return of api.copyDocument:
\* the target is that of the context at the call.
Attach(fileData) ==
    LET targetId == IF activeContext.kind = "project" THEN activeContext.projectId
                    ELSE activeContext.threadId
    IN /\ Ready
       /\ op = Idle
       /\ nUids < MaxUids
       /\ nUids' = nUids + 1
       /\ CopyDocument(Chars(targetId[2]), DocIdChars(nUids + 1), AttachedName, fileData)
       /\ op' = [kind |-> "attach", n |-> nUids + 1]
       /\ UNCHANGED <<loadVars, boot, appState, activeProject, activeContext, ipc>>

\* attachDocumentToCurrentContext from its await: the record goes to the
\* documents of the context of now, and is made the active document.
AttachEnds ==
    LET doc == CHOOSE d \in uploads : d.id = DocIdChars(op.n)
        stored == StoredDocument(doc, op.n, boot.now)
        thread == getActiveThread(Memory)
        r1 == IF activeContext.kind = "project" /\ ~Falsy(activeProject)
              THEN [Memory EXCEPT !.activeProject =
                       Set(activeProject, "documents",
                           Push(Get(activeProject, "documents"), stored))]
              ELSE IF activeContext.kind = "global-thread" /\ ~Falsy(thread)
              THEN [Memory EXCEPT !.appState =
                       SetInList(appState, "globalThreads", activeContext.threadId,
                                 "documents", Push(Get(thread, "documents"), stored))]
              ELSE Memory
        r == setActiveDocumentId(r1, Get(stored, "id"))
    IN /\ Ready
       /\ op.kind = "attach"
       /\ op' = Idle
       /\ Assign(r)
       /\ ipc' = ipc \o saveAll(r)
       /\ UNCHANGED <<storeVars, blobVars, loadVars, boot, nUids>>

\* The 'select-doc' handler, on a document of the active context.
SelectDocument(docId) ==
    LET r == setActiveDocumentId(Memory, docId)
    IN /\ Ready
       /\ docId \in IdsOf(getActiveDocuments(Memory))
       /\ Handled(r, saveAll(r))
       /\ UNCHANGED nUids

\* removeDocument(docId, storedFileName), on a document of the active
\* context, up to the return of api.deleteDocument, whose rejection is
\* swallowed: the target is that of the context at the call.
RemoveDocument(docId) ==
    LET documents == getActiveDocuments(Memory)
        storedFileName == Get(FindId(documents, docId), "storedFileName")
        targetId == IF activeContext.kind = "project" THEN activeContext.projectId
                    ELSE activeContext.threadId
        path == DocumentPath(targetId, storedFileName)
    IN /\ Ready
       /\ op = Idle
       /\ docId \in IdsOf(documents)
       /\ \E rejected \in BOOLEAN : Unlink(IF rejected THEN {} ELSE {path})
       /\ op' = [kind |-> "removeDocument", docId |-> docId]
       /\ UNCHANGED <<boot, appState, activeProject, activeContext, ipc, nUids>>

\* removeDocument from its await: the record leaves the documents of the
\* context of now; the active document of the active thread or session, when
\* it was this one, becomes the first document left, or null.
RemoveDocumentEnds ==
    LET docId == op.docId
        thread == getActiveThread(Memory)
        r1 == IF activeContext.kind = "project" /\ ~Falsy(activeProject)
              THEN [Memory EXCEPT !.activeProject =
                       Set(activeProject, "documents",
                           FilterNotId(Get(activeProject, "documents"), docId))]
              ELSE IF activeContext.kind = "global-thread" /\ ~Falsy(thread)
              THEN [Memory EXCEPT !.appState =
                       SetInList(appState, "globalThreads", activeContext.threadId,
                                 "documents", FilterNotId(Get(thread, "documents"), docId))]
              ELSE Memory
        remaining == getActiveDocuments(r1)
        r == IF getActiveDocumentId(r1) = docId
             THEN setActiveDocumentId(r1, IF Length(remaining) > 0
                                          THEN Get(First(remaining), "id") ELSE JNull)
             ELSE r1
    IN /\ Ready
       /\ op.kind = "removeDocument"
       /\ op' = Idle
       /\ Assign(r)
       /\ ipc' = ipc \o saveAll(r)
       /\ UNCHANGED <<storeVars, blobVars, loadVars, boot, nUids>>

\* addMessage(role, content, meta): the message goes to the end of the
\* active thread's or session's list; the first user message gives a thread
\* still named 'New Thread' (a session named 'New Session') its title.
\* Without an active thread or session nothing is done, and nothing saved.
addMessage(r, role, n, now) ==
    LET msg == Obj([id |-> Str(Uid("msg", n)), role |-> Str(role), content |-> Str("hello"),
                    createdAt |-> Num(now), meta |-> Str("note")])
        active == IF r.activeContext.kind = "global-thread" THEN getActiveThread(r)
                  ELSE getActiveSession(r)
        untitled == IF r.activeContext.kind = "global-thread" THEN Str("New Thread")
                    ELSE Str("New Session")
        r1 == SetInActive(r, "messages", Push(Get(active, "messages"), msg))
        r2 == IF Get(active, "title") = untitled /\ role = "user"
              THEN SetInActive(r1, "title", Str("hello")) ELSE r1
    IN IF Falsy(active) THEN [memory |-> r, messages |-> <<>>]
       ELSE [memory |-> r2, messages |-> saveAll(r2)]

\* sendPrompt() up to its await of api.chat: with a document selected, the
\* prompt is added as a user message.
SendPrompt ==
    LET added == addMessage(Memory, "user", nUids + 1, boot.now)
    IN /\ Ready
       /\ op = Idle
       /\ ~Falsy(getActiveDocumentId(Memory))
       /\ nUids < MaxUids
       /\ nUids' = nUids + 1
       /\ Assign(added.memory)
       /\ ipc' = ipc \o added.messages
       /\ op' = [kind |-> "chat"]
       /\ UNCHANGED <<storeVars, blobVars, loadVars, boot>>

\* sendPrompt() from its await, on an answer: it is added as an assistant
\* message, to the thread or session active now; then saveAll().
SendPromptEnds ==
    LET added == addMessage(Memory, "assistant", nUids + 1, boot.now)
    IN /\ Ready
       /\ op.kind = "chat"
       /\ nUids < MaxUids
       /\ nUids' = nUids + 1
       /\ Assign(added.memory)
       /\ ipc' = ipc \o added.messages \o saveAll(added.memory)
       /\ op' = Idle
       /\ UNCHANGED <<storeVars, blobVars, loadVars, boot>>

\* ---------------------------------------------------------- specification

Init ==
    /\ proc = "running"
    /\ debounceTimers = EmptyMap
    /\ pendingWrites = EmptyMap
    /\ timers = {}
    /\ writes = <<>>
    /\ flushCall = [called |-> FALSE, ws |-> {}, keys |-> {}, before |-> 0, n |-> 0,
                    sched |-> [k \in Keys |-> 0]]
    /\ dirs = {}
    /\ files = EmptyMap
    /\ inodes = EmptyMap
    /\ nCalls = 0
    /\ lastSched = [k \in Keys |-> 0]
    /\ superseded = {}
    /\ overlapped = {}
    /\ deleted = {}
    /\ docs = {}
    /\ readResult = NoRead
    /\ nCopies = 0
    /\ uploads = {}
    /\ loads = <<>>
    /\ appLoad = NoAppLoad
    /\ mig = NoMig
    /\ RendererStart(NoFile)

\* The saves, the scheduler, the writes in flight, project deletion and the
\* end of the process.
Next ==
    \/ SaveAppState /\ UNCHANGED <<blobVars, loadVars, rendererVars>>
    \/ \E p \in ProjectIds : SaveProject(p) /\ UNCHANGED <<blobVars, loadVars, rendererVars>>
    \/ \E t \in timers : TimerFire(t) /\ UNCHANGED <<blobVars, loadVars, rendererVars>>
    \/ \E i \in DOMAIN writes : WriteMkdir(i) /\ UNCHANGED <<blobVars, loadVars, rendererVars>>
    \/ \E i \in DOMAIN writes : WriteOpen(i) /\ UNCHANGED <<blobVars, loadVars, rendererVars>>
    \/ \E i \in DOMAIN writes : WriteChunk(i) /\ UNCHANGED <<blobVars, loadVars, rendererVars>>
    \/ \E i \in DOMAIN writes : WriteRename(i) /\ UNCHANGED <<blobVars, loadVars, rendererVars>>
    \/ \E i \in DOMAIN writes : WriteError(i) /\ UNCHANGED <<blobVars, loadVars, rendererVars>>
    \/ \E p \in ProjectIds : DeleteProject(p) /\ UNCHANGED <<blobVars, loadVars, rendererVars>>
    \/ BeforeQuit /\ UNCHANGED <<blobVars, loadVars, rendererVars>>
    \/ Exit /\ UNCHANGED <<blobVars, loadVars, rendererVars>>
    \/ Crash /\ UNCHANGED <<blobVars, loadVars, rendererVars>>

Spec == Init /\ [][Next]_vars

\* The document blob store.
NextBlob ==
    \/ \E t \in TargetIds, d \in DocumentIds, o \in FileNames, b \in FileDatas :
          CopyDocument(t, d, o, b) /\ UNCHANGED <<loadVars, rendererVars>>
    \/ \E doc \in docs : ReadDocument(doc) /\ UNCHANGED <<loadVars, rendererVars>>
    \/ \E doc \in docs : DeleteDocument(doc) /\ UNCHANGED <<loadVars, rendererVars>>

SpecBlob == Init /\ [][NextBlob]_vars

\* A disk holding the texts given (a function from paths to texts), each
\* completely written.
DiskFiles(texts) == [p \in DOMAIN texts |-> CHOOSE i \in DOMAIN KeySeq(texts) : KeySeq(texts)[i] = p]

DiskInodes(texts) == [i \in DOMAIN KeySeq(texts) |-> Full(texts[KeySeq(texts)[i]])]

DiskDirs(texts) == UNION {Ancestors(pathDirname(p)) : p \in DOMAIN texts}

\* The files a choice of project.json and app-state.json puts on disk.
StartTexts(projectFile, appStateFile) ==
    LET all == [p \in {projectJsonPath(q) : q \in ProjectIds} \cup {appStatePath} |->
                   IF p = appStatePath THEN appStateFile ELSE projectFile]
    IN [p \in {q \in DOMAIN all : all[q] # NoFile} |-> all[p]]

\* The disks a run starts from: every project.json beside one app-state.json,
\* and every app-state.json beside one project.json (the two files are loaded
\* by calls that share nothing).
StartDisks ==
    {StartTexts(projectFile, JSONstringify(AppState2)) : projectFile \in ProjectFiles}
        \cup {StartTexts(JSONstringify(SessionsProject(Arr(<<Session1>>))), appStateFile) :
                  appStateFile \in AppStateFiles}

\* A process starting on a disk left by earlier runs.
InitLoad ==
    /\ proc = "running"
    /\ debounceTimers = EmptyMap
    /\ pendingWrites = EmptyMap
    /\ timers = {}
    /\ writes = <<>>
    /\ flushCall = [called |-> FALSE, ws |-> {}, keys |-> {}, before |-> 0, n |-> 0,
                    sched |-> [k \in Keys |-> 0]]
    /\ \E texts \in StartDisks :
          /\ dirs = DiskDirs(texts)
          /\ files = DiskFiles(texts)
          /\ inodes = DiskInodes(texts)
    /\ nCalls = 0
    /\ lastSched = [k \in Keys |-> 0]
    /\ superseded = {}
    /\ overlapped = {}
    /\ deleted = {}
    /\ docs = {}
    /\ readResult = NoRead
    /\ nCopies = 0
    /\ uploads = {}
    /\ loads = <<>>
    /\ appLoad = NoAppLoad
    /\ mig = NoMig
    /\ RendererStart(NoFile)

\* The loads of the two metadata files, with the upgrade writes of loadProject.
NextLoad ==
    \/ \E p \in ProjectIds : LoadProject(p) /\ UNCHANGED rendererVars
    \/ \E l \in DOMAIN loads : LoadProjectResume(l) /\ UNCHANGED rendererVars
    \/ LoadAppState /\ UNCHANGED rendererVars
    \/ \E i \in DOMAIN writes : WriteMkdir(i) /\ UNCHANGED <<blobVars, loadVars, rendererVars>>
    \/ \E i \in DOMAIN writes : WriteOpen(i) /\ UNCHANGED <<blobVars, loadVars, rendererVars>>
    \/ \E i \in DOMAIN writes : WriteChunk(i) /\ UNCHANGED <<blobVars, loadVars, rendererVars>>
    \/ \E i \in DOMAIN writes : WriteRename(i) /\ UNCHANGED <<blobVars, loadVars, rendererVars>>
    \/ \E i \in DOMAIN writes : WriteError(i) /\ UNCHANGED <<blobVars, loadVars, rendererVars>>

SpecLoad == InitLoad /\ [][NextLoad]_vars

\* The saves and the loads of the application state.
NextState ==
    \/ \E s \in ValidAppStates : SaveAppStateOf(s) /\ UNCHANGED <<blobVars, loadVars, rendererVars>>
    \/ \E t \in timers : TimerFire(t) /\ UNCHANGED <<blobVars, loadVars, rendererVars>>
    \/ \E i \in DOMAIN writes : WriteMkdir(i) /\ UNCHANGED <<blobVars, loadVars, rendererVars>>
    \/ \E i \in DOMAIN writes : WriteOpen(i) /\ UNCHANGED <<blobVars, loadVars, rendererVars>>
    \/ \E i \in DOMAIN writes : WriteChunk(i) /\ UNCHANGED <<blobVars, loadVars, rendererVars>>
    \/ \E i \in DOMAIN writes : WriteRename(i) /\ UNCHANGED <<blobVars, loadVars, rendererVars>>
    \/ \E i \in DOMAIN writes : WriteError(i) /\ UNCHANGED <<blobVars, loadVars, rendererVars>>
    \/ BeforeQuit /\ UNCHANGED <<blobVars, loadVars, rendererVars>>
    \/ LoadAppState /\ UNCHANGED rendererVars

SpecState == Init /\ [][NextState]_vars

\* The migration of the legacy blob, on a disk without metadata files.
NextMigrate ==
    \/ \E t \in LegacyTexts, now \in Times : MigrateCall(t, now) /\ UNCHANGED rendererVars
    \/ MigrateResume /\ UNCHANGED rendererVars
    \/ \E i \in DOMAIN writes : WriteMkdir(i) /\ UNCHANGED <<blobVars, loadVars, rendererVars>>
    \/ \E i \in DOMAIN writes : WriteOpen(i) /\ UNCHANGED <<blobVars, loadVars, rendererVars>>
    \/ \E i \in DOMAIN writes : WriteChunk(i) /\ UNCHANGED <<blobVars, loadVars, rendererVars>>
    \/ \E i \in DOMAIN writes : WriteRename(i) /\ UNCHANGED <<blobVars, loadVars, rendererVars>>
    \/ \E i \in DOMAIN writes : WriteError(i) /\ UNCHANGED <<blobVars, loadVars, rendererVars>>

SpecMigrate == Init /\ [][NextMigrate]_vars

\* The ids of the projects of the legacy state of the migration.
MigratedIds == {Chars(Get(mig.projects[k], "id")[2]) : k \in DOMAIN mig.projects}

\* The migration, and the loads that follow its return.
NextMigrateLoad ==
    \/ NextMigrate
    \/ mig.pc = "returned" /\ LoadAppState /\ UNCHANGED rendererVars
    \/ \E p \in MigratedIds : mig.pc = "returned" /\ LoadProject(p) /\ UNCHANGED rendererVars

SpecMigrateLoad == Init /\ [][NextMigrateLoad]_vars

\* Ids that differ only in a character sanitizeFileName replaces, beside an
\* id it leaves alone: of projects, and of documents.
WideProjectIds == {<<"p", "1">>, <<"p", "/", "1">>, <<"p", "_", "1">>}

UploadIds == {<<"d", "1">>, <<"d", "/", "1">>, <<"d", "_", "1">>}

WideKeys == {appStateKey} \cup {projectKey(p) : p \in WideProjectIds}

\* The saves of the application state and of projects, up to the arming of
\* their timers (the key and the path of a save are fixed by then), and the
\* uploads of one file name under several document ids.
InitNames ==
    /\ proc = "running"
    /\ debounceTimers = EmptyMap
    /\ pendingWrites = EmptyMap
    /\ timers = {}
    /\ writes = <<>>
    /\ flushCall = [called |-> FALSE, ws |-> {}, keys |-> {}, before |-> 0, n |-> 0,
                    sched |-> [k \in WideKeys |-> 0]]
    /\ dirs = {}
    /\ files = EmptyMap
    /\ inodes = EmptyMap
    /\ nCalls = 0
    /\ lastSched = [k \in WideKeys |-> 0]
    /\ superseded = {}
    /\ overlapped = {}
    /\ deleted = {}
    /\ docs = {}
    /\ readResult = NoRead
    /\ nCopies = 0
    /\ uploads = {}
    /\ loads = <<>>
    /\ appLoad = NoAppLoad
    /\ mig = NoMig
    /\ RendererStart(NoFile)

NextNames ==
    \/ SaveAppState /\ UNCHANGED <<blobVars, loadVars, rendererVars>>
    \/ \E p \in WideProjectIds : SaveProject(p) /\ UNCHANGED <<blobVars, loadVars, rendererVars>>
    \/ \E t \in TargetIds \cup WideProjectIds, d \in UploadIds, b \in FileDatas :
          CopyDocument(t, d, <<"r", "e", "p", "o", "r", "t", ".", "p", "d", "f">>, b)
              /\ UNCHANGED <<loadVars, rendererVars>>

SpecNames == InitNames /\ [][NextNames]_vars

\* The saves of both keys, the scheduler, the writes with their failures, and
\* the flush of the before-quit handler; no project is deleted and the process
\* does not end.
NextSave ==
    \/ SaveAppState /\ UNCHANGED <<blobVars, loadVars, rendererVars>>
    \/ \E p \in ProjectIds : SaveProject(p) /\ UNCHANGED <<blobVars, loadVars, rendererVars>>
    \/ \E t \in timers : TimerFire(t) /\ UNCHANGED <<blobVars, loadVars, rendererVars>>
    \/ \E i \in DOMAIN writes : WriteMkdir(i) /\ UNCHANGED <<blobVars, loadVars, rendererVars>>
    \/ \E i \in DOMAIN writes : WriteOpen(i) /\ UNCHANGED <<blobVars, loadVars, rendererVars>>
    \/ \E i \in DOMAIN writes : WriteChunk(i) /\ UNCHANGED <<blobVars, loadVars, rendererVars>>
    \/ \E i \in DOMAIN writes : WriteRename(i) /\ UNCHANGED <<blobVars, loadVars, rendererVars>>
    \/ \E i \in DOMAIN writes : WriteError(i) /\ UNCHANGED <<blobVars, loadVars, rendererVars>>
    \/ BeforeQuit /\ UNCHANGED <<blobVars, loadVars, rendererVars>>

SpecSave == Init /\ [][NextSave]_vars

\* The timers of the main process fire and its filesystem calls complete: a
\* callback that is due runs, and a write that has started goes on.
TimersRun ==
    \E t \in timers : TimerFire(t) /\ UNCHANGED <<blobVars, loadVars, rendererVars>>

WritesRun ==
    \E i \in DOMAIN writes :
        /\ WriteMkdir(i) \/ WriteOpen(i) \/ WriteChunk(i) \/ WriteRename(i)
        /\ UNCHANGED <<blobVars, loadVars, rendererVars>>

SpecSaveFair == SpecSave /\ WF_vars(TimersRun) /\ WF_vars(WritesRun)

\* The application states the renderer saves: a project index, the global
\* threads given, the active project "p1" and the active session given.
RendererAppState(globalThreads, activeSessionId) ==
    Obj([projectIndex |-> Arr(<<IndexEntry("p1", "Document Pilot", 2)>>),
         globalThreads |-> Arr(globalThreads), activeProjectId |-> Str("p1"),
         activeSessionId |-> Str(activeSessionId), settings |-> DEFAULT_SETTINGS])

\* The disks boot() starts from: those of the loads, an empty one, and the
\* states of the renderer beside a project file and beside none.
BootDisks ==
    StartDisks \cup {StartTexts(NoFile, NoFile)} \cup
        {StartTexts(projectFile, JSONstringify(RendererAppState(globalThreads, sessionId))) :
            projectFile \in {NoFile, JSONstringify(SessionsProject(Arr(<<Session1>>)))},
            globalThreads \in {<<>>, <<Thread1>>},
            sessionId \in {"s1", "s9"}}

BootKeys ==
    {appStateKey} \cup
        {projectKey(Chars(s)) : s \in {"p1", "p2", "p3", FreshProjectId, FreshProjectId2}}

\* A launch on a disk left by earlier runs, localStorage holding a legacy
\* blob or none (boot reads it only when no state loads).
InitBoot ==
    /\ proc = "running"
    /\ debounceTimers = EmptyMap
    /\ pendingWrites = EmptyMap
    /\ timers = {}
    /\ writes = <<>>
    /\ flushCall = [called |-> FALSE, ws |-> {}, keys |-> {}, before |-> 0, n |-> 0,
                    sched |-> [k \in BootKeys |-> 0]]
    /\ \E texts \in BootDisks :
          /\ dirs = DiskDirs(texts)
          /\ files = DiskFiles(texts)
          /\ inodes = DiskInodes(texts)
          /\ \E legacy \in {NoFile} \cup
                              (IF appStatePath \in DOMAIN texts THEN {} ELSE LegacyTexts) :
                RendererStart(legacy)
    /\ nCalls = 0
    /\ lastSched = [k \in BootKeys |-> 0]
    /\ superseded = {}
    /\ overlapped = {}
    /\ deleted = {}
    /\ docs = {}
    /\ readResult = NoRead
    /\ nCopies = 0
    /\ uploads = {}
    /\ loads = <<>>
    /\ appLoad = NoAppLoad
    /\ mig = NoMig

\* boot(), the calls of the main process it awaits and their writes.
NextBoot ==
    \/ \E now \in Times : BootStart(now) /\ UNCHANGED nUids
    \/ BootMigrated /\ UNCHANGED nUids
    \/ BootRestore /\ UNCHANGED nUids
    \/ BootLoaded /\ UNCHANGED nUids
    \/ MainSave /\ UNCHANGED nUids
    \/ MigrateResume /\ UNCHANGED rendererVars
    \/ \E l \in DOMAIN loads : LoadProjectResume(l) /\ UNCHANGED rendererVars
    \/ \E i \in DOMAIN writes : WriteMkdir(i) /\ UNCHANGED <<blobVars, loadVars, rendererVars>>
    \/ \E i \in DOMAIN writes : WriteOpen(i) /\ UNCHANGED <<blobVars, loadVars, rendererVars>>
    \/ \E i \in DOMAIN writes : WriteChunk(i) /\ UNCHANGED <<blobVars, loadVars, rendererVars>>
    \/ \E i \in DOMAIN writes : WriteRename(i) /\ UNCHANGED <<blobVars, loadVars, rendererVars>>
    \/ \E i \in DOMAIN writes : WriteError(i) /\ UNCHANGED <<blobVars, loadVars, rendererVars>>

SpecBoot == InitBoot /\ [][NextBoot]_vars

\* The keys of the saves of a run that starts without state.
UiKeys ==
    {appStateKey} \cup {projectKey(Chars(Uid("project", n))) : n \in 1..(MaxUids + 1)}

\* A first launch: no file, no legacy blob.
InitUI ==
    /\ proc = "running"
    /\ debounceTimers = EmptyMap
    /\ pendingWrites = EmptyMap
    /\ timers = {}
    /\ writes = <<>>
    /\ flushCall = [called |-> FALSE, ws |-> {}, keys |-> {}, before |-> 0, n |-> 0,
                    sched |-> [k \in UiKeys |-> 0]]
    /\ dirs = {}
    /\ files = EmptyMap
    /\ inodes = EmptyMap
    /\ nCalls = 0
    /\ lastSched = [k \in UiKeys |-> 0]
    /\ superseded = {}
    /\ overlapped = {}
    /\ deleted = {}
    /\ docs = {}
    /\ readResult = NoRead
    /\ nCopies = 0
    /\ uploads = {}
    /\ loads = <<>>
    /\ appLoad = NoAppLoad
    /\ mig = NoMig
    /\ RendererStart(NoFile)

\* boot() and the handlers of the renderer, with the main process handling
\* their calls; no debounce timer fires.
NextUI ==
    \/ \E now \in {5000} : BootStart(now) /\ UNCHANGED nUids
    \/ BootRestore /\ UNCHANGED nUids
    \/ BootLoaded /\ UNCHANGED nUids
    \/ MainSave /\ UNCHANGED nUids
    \/ \E p \in IdsOf(Get(appState, "projectIndex")) : SwitchToProject(p)
    \/ SwitchLoaded /\ UNCHANGED nUids
    \/ CreateSession
    \/ \E s \in IdsOf(Get(activeProject, "sessions")) : SwitchSession(s)
    \/ \E s \in IdsOf(Get(activeProject, "sessions")) : DeleteSession(s)
    \/ CreateGlobalThread
    \/ \E t \in IdsOf(Get(appState, "globalThreads")) : SwitchToThread(t)
    \/ \E t \in IdsOf(Get(appState, "globalThreads")) : DeleteThread(t)
    \/ DeleteThreadEnds
    \/ CreateProject
    \/ \E p \in IdsOf(Get(appState, "projectIndex")) : DeleteProjectStarts(p)
    \/ DeleteProjectEnds
    \/ Attach(7)
    \/ AttachEnds
    \/ \E d \in IdsOf(getActiveDocuments(Memory)) : SelectDocument(d)
    \/ \E d \in IdsOf(getActiveDocuments(Memory)) : RemoveDocument(d)
    \/ RemoveDocumentEnds

SpecUI == InitUI /\ [][NextUI]_vars

\* No write of the main process is under way.
Settled == \A i \in DOMAIN writes : ~InFlight(writes[i])

\* The debounce timers of the project files; nothing reads app-state.json
\* after boot(), and its timers are left pending.
ProjectTimers == {t \in timers : t.key # appStateKey}

\* The window and the main process with its debounce timers and its writes:
\* boot() of a first launch, attach, send, and a click on a project of the
\* list, the events of the window and the timers falling between the writes.
NextReload ==
    \/ \E now \in {5000} : BootStart(now) /\ UNCHANGED nUids
    \/ BootRestore /\ UNCHANGED nUids
    \/ BootLoaded /\ UNCHANGED nUids
    \/ MainSave /\ UNCHANGED nUids
    \/ Settled /\ \E t \in ProjectTimers : TimerFire(t) /\ UNCHANGED <<blobVars, loadVars, rendererVars>>
    \/ \E i \in DOMAIN writes : WriteMkdir(i) /\ UNCHANGED <<blobVars, loadVars, rendererVars>>
    \/ \E i \in DOMAIN writes : WriteOpen(i) /\ UNCHANGED <<blobVars, loadVars, rendererVars>>
    \/ \E i \in DOMAIN writes : WriteChunk(i) /\ UNCHANGED <<blobVars, loadVars, rendererVars>>
    \/ \E i \in DOMAIN writes : WriteRename(i) /\ UNCHANGED <<blobVars, loadVars, rendererVars>>
    \/ \E l \in DOMAIN loads : LoadProjectResume(l) /\ UNCHANGED rendererVars
    \/ Settled /\ Attach(7)
    \/ Settled /\ AttachEnds
    \/ Settled /\ SendPrompt
    \/ Settled /\ SendPromptEnds
    \/ Settled /\ \E p \in IdsOf(Get(appState, "projectIndex")) : SwitchToProject(p)
    \/ Settled /\ SwitchLoaded /\ UNCHANGED nUids

SpecReload == InitUI /\ [][NextReload]_vars

\* The keys of the saves over several launches.
BootsKeys == BootKeys \cup UiKeys

\* The legacy blob of the launches: a state with one project.
BootsLegacy == {JSONstringify(Obj([projects |-> Arr(<<LegacyProject2>>)]))}

\* The model typed in the settings dialog.
Models == {"gpt-5"}

\* The first launch of this version: no file of the store on disk, the
\* legacy blob in localStorage.
InitBoots ==
    /\ proc = "running"
    /\ debounceTimers = EmptyMap
    /\ pendingWrites = EmptyMap
    /\ timers = {}
    /\ writes = <<>>
    /\ flushCall = [called |-> FALSE, ws |-> {}, keys |-> {}, before |-> 0, n |-> 0,
                    sched |-> [k \in BootsKeys |-> 0]]
    /\ dirs = {}
    /\ files = EmptyMap
    /\ inodes = EmptyMap
    /\ nCalls = 0
    /\ lastSched = [k \in BootsKeys |-> 0]
    /\ superseded = {}
    /\ overlapped = {}
    /\ deleted = {}
    /\ docs = {}
    /\ readResult = NoRead
    /\ nCopies = 0
    /\ uploads = {}
    /\ loads = <<>>
    /\ appLoad = NoAppLoad
    /\ mig = NoMig
    /\ \E legacy \in BootsLegacy : RendererStart(legacy)

\* The application is launched again after its process has ended: the main
\* process and the window start anew (the records of the writes and saves of
\* the process that ended are dropped), the disk and localStorage are the
\* ones the last run left, and uid() goes on giving new ids.
Relaunch ==
    /\ proc \in {"exited", "crashed"}
    /\ boot.launch < MaxLaunches
    /\ proc' = "running"
    /\ writes' = <<>>
    /\ nCalls' = 0
    /\ lastSched' = [k \in BootsKeys |-> 0]
    /\ superseded' = {}
    /\ overlapped' = {}
    /\ flushCall' = [called |-> FALSE, ws |-> {}, keys |-> {}, before |-> 0, n |-> 0,
                     sched |-> [k \in BootsKeys |-> 0]]
    /\ loads' = <<>>
    /\ appLoad' = NoAppLoad
    /\ mig' = [NoMig EXCEPT !.returns = mig.returns]
    /\ boot' = [pc |-> "start", legacy |-> boot.legacy, l |-> 0, now |-> 0,
                launch |-> boot.launch + 1]
    /\ appState' = JNull
    /\ activeProject' = JNull
    /\ activeContext' = ProjectContext(Str(""), Str(""))
    /\ op' = Idle
    /\ ipc' = <<>>
    /\ UNCHANGED <<debounceTimers, pendingWrites, timers, dirs, files, inodes, deleted,
                   blobVars, nUids>>

\* The launches of the application one after the other: boot() with the
\* calls it awaits, the settings saved in the window, the saves with the
\* timer of app-state.json and the writes, the quit with its flush, and the
\* next launch.
NextBoots ==
    \/ \E now \in {5000} : BootStart(now) /\ UNCHANGED nUids
    \/ BootMigrated /\ UNCHANGED nUids
    \/ BootRestore /\ UNCHANGED nUids
    \/ BootLoaded /\ UNCHANGED nUids
    \/ MainSave /\ UNCHANGED nUids
    \/ \E model \in Models : nCalls < MaxSettings /\ SaveSettings(model)
    \/ MigrateResume /\ UNCHANGED rendererVars
    \/ \E l \in DOMAIN loads : LoadProjectResume(l) /\ UNCHANGED rendererVars
    \/ \E t \in timers \ ProjectTimers : TimerFire(t) /\ UNCHANGED <<blobVars, loadVars, rendererVars>>
    \/ \E i \in DOMAIN writes : WriteMkdir(i) /\ UNCHANGED <<blobVars, loadVars, rendererVars>>
    \/ \E i \in DOMAIN writes : WriteOpen(i) /\ UNCHANGED <<blobVars, loadVars, rendererVars>>
    \/ \E i \in DOMAIN writes : WriteChunk(i) /\ UNCHANGED <<blobVars, loadVars, rendererVars>>
    \/ \E i \in DOMAIN writes : WriteRename(i) /\ UNCHANGED <<blobVars, loadVars, rendererVars>>
    \/ BeforeQuit /\ UNCHANGED <<blobVars, loadVars, rendererVars>>
    \/ Exit /\ UNCHANGED <<blobVars, loadVars, rendererVars>>
    \/ Relaunch

SpecBoots == InitBoots /\ [][NextBoots]_vars

\* ------------------------------------------------------------ properties

\* The file each key is saved to.
KeyPath(k) ==
    IF k = appStateKey THEN appStatePath
    ELSE projectJsonPath(CHOOSE p \in ProjectIds : projectKey(p) = k)

Targets == {KeyPath(k) : k \in Keys}

\* The writes the scheduler started: by a fired timer or by flush.
Scheduled(i) == writes[i].origin \in {"timer", "flush"}

StartedFor(data) == {i \in DOMAIN writes : Scheduled(i) /\ writes[i].data = data}

WritersOf(k) == {i \in DOMAIN writes : Scheduled(i) /\ writes[i].key = k}

IsPending(data) == \E k \in DOMAIN pendingWrites : pendingWrites[k].data = data

\* The latest atomicWrite call on target p that has renamed its file into place.
LastDone(p) ==
    LET done == {i \in DOMAIN writes : writes[i].filePath = p /\ writes[i].pc = "done"}
    IN IF done = {} THEN 0 ELSE CHOOSE i \in done : \A j \in done : j <= i

\* C1: as long as the atomicWrite calls on a target follow one another (no two
\* were ever in flight together), a reader of the target finds no file or the
\* complete content of the latest call that finished: never an empty, partial
\* or mixed file, whether the process runs, quits or has crashed mid-write.
C1_AtomicTarget ==
    \A p \in Targets \ overlapped :
        \/ ReadFile(p) = <<"ENOENT">>
        \/ LastDone(p) # 0 /\ ReadFile(p) = Full(writes[LastDone(p)].data)

\* C1 witness: the process crashed between the temp write and the rename of
\* a second write: the temp file is partial, the target holds the first content.
C1_Witness ==
    /\ proc = "crashed"
    /\ \E p \in Targets \ overlapped :
          /\ p \in DOMAIN files /\ TmpPath(p) \in DOMAIN files
          /\ Len(ReadFile(TmpPath(p))) \in 1..(Chunks - 1)
          /\ \E i \in DOMAIN writes : writes[i].filePath = p /\ writes[i].pc = "lost"
          /\ ReadFile(p) = Full(writes[LastDone(p)].data)

\* C2: of the save calls of one key that arrive while the previous call's
\* timer is still armed, only the last starts a physical write, and exactly
\* one, carrying that call's own path and content: a replaced payload is never
\* written, and a payload that is no longer pending has been written once.
C2_OneWritePerBurst ==
    \A d \in 1..nCalls :
        /\ Cardinality(StartedFor(d)) <= 1
        /\ (\E s \in superseded : s.data = d) => StartedFor(d) = {}
        /\ (Alive /\ ~IsPending(d) /\ ~\E s \in superseded : s.data = d)
               => \E i \in StartedFor(d) :
                     \E k \in Keys : /\ lastSched[k] >= d
                                     /\ writes[i].key = k
                                     /\ writes[i].filePath = KeyPath(k)

\* C2 witness: a timer fired after a burst of two saves of one key, and the
\* one write it started carries the second save.
C2_Witness ==
    \E i \in DOMAIN writes : \E s \in superseded :
        /\ writes[i].origin = "timer"
        /\ writes[i].key = s.key
        /\ writes[i].data = s.data + 1
        /\ StartedFor(s.data) = {}

\* C3: flush starts one write per key pending at the call, with that key's
\* latest payload; when its promise is fulfilled they have all been renamed
\* into place; the two maps and the armed timers hold nothing older than the
\* call; and no payload saved before the call is written a second time.
C3_FlushWritesAll ==
    flushCall.called =>
        /\ Cardinality(flushCall.ws) = Cardinality(flushCall.keys)
        /\ \A k \in flushCall.keys :
              \E i \in flushCall.ws : /\ writes[i].key = k
                                      /\ writes[i].origin = "flush"
                                      /\ writes[i].filePath = KeyPath(k)
                                      /\ writes[i].data = flushCall.sched[k]
        /\ FlushStatus = "resolved" => \A i \in flushCall.ws : writes[i].pc = "done"
        /\ DOMAIN debounceTimers = DOMAIN pendingWrites
        /\ \A k \in DOMAIN pendingWrites : pendingWrites[k].data > flushCall.n
        /\ \A t \in timers : t.data > flushCall.n
        /\ \A d \in 1..flushCall.n : Cardinality(StartedFor(d)) <= 1

\* C3 witness: flush was called with two keys pending and has resolved.
C3_Witness ==
    /\ flushCall.called
    /\ Cardinality(flushCall.keys) = 2
    /\ FlushStatus = "resolved"

\* C4: once every write the scheduler started for a key has finished, with
\* nothing pending for the key, the key's file holds the latest save.
C4_NoLostUpdate ==
    \A k \in Keys :
        (/\ Alive
         /\ lastSched[k] # 0
         /\ ~MapHas(pendingWrites, k)
         /\ \A t \in timers : t.key # k
         /\ \A i \in WritersOf(k) : writes[i].pc = "done"
         /\ \A p \in deleted : projectKey(p) # k)
            => ReadFile(KeyPath(k)) = Full(lastSched[k])

\* C5: at most one write started by the scheduler is in flight for a key.
C5_OneInFlightPerKey ==
    \A k \in Keys : Cardinality({i \in WritersOf(k) : InFlight(writes[i])}) <= 1

\* C6: when flush has resolved, no write the scheduler started before or in
\* the flush call is still in flight.
C6_FlushAwaitsTimerWrites ==
    FlushStatus = "resolved" =>
        \A i \in DOMAIN writes :
            (Scheduled(i) /\ i <= flushCall.before + Cardinality(flushCall.ws))
                => ~InFlight(writes[i])

\* C7: flush has settled only when every write it started has completed or
\* failed.
C7_FlushSettlesLast ==
    FlushStatus \in {"resolved", "rejected"} =>
        \A i \in flushCall.ws : ~InFlight(writes[i])

\* C8: the process exits only after flush has settled, and then every save
\* made before the quit event, when no later save, delete or I/O error
\* interfered, is on disk.
C8_QuitKeepsSaves ==
    proc = "exited" =>
        /\ FlushStatus \in {"resolved", "rejected"}
        /\ \A k \in Keys :
              (/\ flushCall.sched[k] # 0
               /\ lastSched[k] = flushCall.sched[k]
               /\ \A i \in DOMAIN writes : writes[i].pc # "failed"
               /\ \A p \in deleted : projectKey(p) # k)
                  => ReadFile(KeyPath(k)) = Full(flushCall.sched[k])

\* C9: once deleteProject(id) has resolved and no saveProject(id) was made
\* since, loadProject(id) returns null.
C9_DeletedLoadsNull ==
    \A p \in deleted : loadProject(p) = Null

\* C10: readDocument of a stored document, called with the storedFileName
\* copyDocument returned, succeeds and returns the bytes and the
\* originalFileName that were passed to copyDocument.
C10_RoundTrip ==
    readResult.status # "none" =>
        /\ readResult.status = "ok"
        /\ readResult.fileData = Full(readResult.doc.fileData)
        /\ readResult.originalFileName = readResult.doc.originalFileName

Upgrades == {l \in DOMAIN loads : loads[l].pc = "returned" /\ loads[l].w # 0}

\* C12: a loadProject that upgraded a file of the 'sessions' schema and
\* returned a project returns it without 'sessions', with one thread per
\* session in the same order, each thread with an empty documents list, a null
\* activeDocumentId and the session's other fields unchanged, and with the
\* project's other fields unchanged.
C12_UpgradeShape ==
    \A l \in Upgrades :
        LET data == loads[l].parsed.value
            sessions == Get(data, "sessions")[2]
            project == loads[l].result.value
            threads == Get(project, "threads")
        IN loads[l].result # Returned(JNull) =>
              /\ ~In("sessions", project)
              /\ threads[1] = "array"
              /\ Len(threads[2]) = Len(sessions)
              /\ \A i \in DOMAIN sessions :
                    /\ Get(threads[2][i], "documents") = Arr(<<>>)
                    /\ Get(threads[2][i], "activeDocumentId") = JNull
                    /\ \A k \in DOMAIN sessions[i][2] \ {"documents", "activeDocumentId"} :
                          Get(threads[2][i], k) = sessions[i][2][k]
              /\ \A k \in DOMAIN data[2] \ {"sessions"} : Get(project, k) = data[2][k]

\* C13: when a loadProject that upgraded a file returns a project, the file
\* holds the text of that project, and every loadProject of the same id called
\* after that return returns an equal value and starts no write.
C13_UpgradeOnce ==
    \A l \in Upgrades :
        loads[l].result # Returned(JNull) =>
            /\ loads[l].disk = <<"file", Full(JSONstringify(loads[l].result.value))>>
            /\ \A m \in DOMAIN loads :
                  (/\ l \in loads[m].after
                   /\ loads[m].projectId = loads[l].projectId
                   /\ loads[m].pc = "returned")
                      => loads[m].result = loads[l].result /\ loads[m].w = 0

\* C14: a loadProject whose upgrade write failed throws; it does not return
\* null.
C14_UpgradeFailureThrows ==
    \A l \in Upgrades :
        writes[loads[l].w].pc = "failed" => loads[l].result = Thrown

\* C15: when a write that flush started has failed, the promise of flush is
\* rejected; it is not fulfilled and not left pending.
C15_FlushRejects ==
    (flushCall.called /\ \E i \in flushCall.ws : writes[i].pc = "failed")
        => FlushStatus = "rejected"

\* C15 witness: flush started two writes, one failed with an I/O error and
\* the other was renamed into place.
C15_Witness ==
    /\ flushCall.called
    /\ \E i, j \in flushCall.ws :
          writes[i].pc = "failed" /\ writes[i].err /\ writes[j].pc = "done"

\* C16: loadProject and loadAppState return null when the file is missing or
\* is not parsable JSON: they do not throw, and they start no write (every
\* write is the upgrade write of a loadProject call that parsed its file).
C16_UnreadableLoadsNull ==
    /\ \A l \in DOMAIN loads :
          loads[l].parsed.status = "threw" =>
              /\ loads[l].pc = "returned"
              /\ loads[l].result = Returned(JNull)
              /\ loads[l].w = 0
    /\ (appLoad.called /\ appLoad.seen.status = "threw") => appLoad.result = Returned(JNull)
    /\ \A i \in DOMAIN writes :
          \E l \in DOMAIN loads : loads[l].w = i /\ loads[l].parsed.status = "ok"

\* C16 witness: a loadProject found a file that holds only a part of a text
\* (cut by an overlapping upgrade write), another found no file or no JSON,
\* and loadAppState found a file that is not JSON.
C16_Witness ==
    /\ \E l \in DOMAIN loads :
          /\ loads[l].parsed.status = "threw"
          /\ loads[l].disk # <<"ENOENT">>
    /\ appLoad.called
    /\ appLoad.seen.status = "threw"
    /\ appStatePath \in DOMAIN files

\* C17: once the latest saveAppState(S) has been written (nothing pending, no
\* timer armed, every write started for the key renamed into place),
\* loadAppState returns S.
C17_SaveLoadRoundTrip ==
    (/\ nCalls > 0
     /\ ~MapHas(pendingWrites, appStateKey)
     /\ \A t \in timers : t.key # appStateKey
     /\ \A i \in WritersOf(appStateKey) : writes[i].pc = "done")
        => loadAppState = Returned(lastSched[appStateKey].json)

\* The statement of a rename on an object: where the old key is present and
\* the new one absent, `after` has the old key's value under the new key and
\* no old key; otherwise both keys are as they were.
KeyRenamed(before, after, old, new) ==
    IF In(old, before) /\ ~In(new, before)
    THEN ~In(old, after) /\ Get(after, new) = before[2][old]
    ELSE Get(after, old) = Get(before, old) /\ Get(after, new) = Get(before, new)

\* The keys of `before` and `after` other than those of `keys` are the same,
\* with the same values.
OthersKept(before, after, keys) ==
    \A k \in (DOMAIN before[2] \cup DOMAIN after[2]) \ keys : Get(after, k) = Get(before, k)

\* C18: on a state object whose settings.shortcuts, where there is one, is an
\* object, loadAppState returns the object with each of the three renames made
\* where the old key is present and the new one absent, the new key's value
\* kept where it is present, and every other field as parsed.
C18_Renames ==
    LET data == appLoad.seen.value
        state == appLoad.result.value
        settings == Get(data, "settings")
        shortcuts == Get(settings, "shortcuts")
    IN (/\ appLoad.called
        /\ appLoad.seen.status = "ok"
        /\ data[1] = "object"
        /\ shortcuts[1] \in {"object", "undefined"})
          => /\ appLoad.result.status = "ok"
             /\ state[1] = "object"
             /\ KeyRenamed(data, state, "globalThreads", "threads")
             /\ KeyRenamed(data, state, "activeSessionId", "activeThreadId")
             /\ OthersKept(data, state, {"globalThreads", "threads", "activeSessionId",
                                         "activeThreadId", "settings"})
             /\ IF shortcuts[1] = "undefined"
                THEN Get(state, "settings") = settings
                ELSE /\ OthersKept(settings, Get(state, "settings"), {"shortcuts"})
                     /\ KeyRenamed(shortcuts, Get(Get(state, "settings"), "shortcuts"),
                                   "newSession", "newThread")
                     /\ OthersKept(shortcuts, Get(Get(state, "settings"), "shortcuts"),
                                   {"newSession", "newThread"})

\* C18 witness: loadAppState read a state that has the three old names and
\* none of the new ones.
C18_Witness ==
    /\ appLoad.called
    /\ appLoad.seen = Returned(OldAppState)
    /\ appLoad.result.status = "ok"
    /\ In("threads", appLoad.result.value)

\* The projects of the legacy state given to the migration, as its text has
\* them (none when the state has no projects).
LegacyProjects ==
    LET given == Get(JSONparse(mig.text).value, "projects")
    IN IF given[1] = "array" THEN given[2] ELSE <<>>

\* The thread is the session: same id, title, lastUpdated and messages (same
\* order, same id, role, content, createdAt), no documents, no active document.
ThreadOf(thread, session) ==
    LET was == Get(session, "messages")[2]
        now == Get(thread, "messages")
    IN /\ Get(thread, "id") = Get(session, "id")
       /\ Get(thread, "title") = Get(session, "title")
       /\ Get(thread, "lastUpdated") = Get(session, "lastUpdated")
       /\ Get(thread, "documents") = Arr(<<>>)
       /\ Get(thread, "activeDocumentId") = JNull
       /\ now[1] = "array"
       /\ Len(now[2]) = Len(was)
       /\ \A j \in DOMAIN was :
             \A key \in {"id", "role", "content", "createdAt"} :
                 Get(now[2][j], key) = Get(was[j], key)

\* C19: when migrateLegacyState has returned, it has written one project file
\* per legacy project, in order, and the file holds a ProjectMetadata with the
\* project's id and name, no documents, and one thread per legacy session in
\* the same order, each the session with empty documents and null
\* activeDocumentId; and the returned projectIndex has one entry per legacy
\* project, in order, with its id and name.
C19_OneToOne ==
    mig.pc = "returned" =>
        LET index == Get(mig.result.value, "projectIndex")
        IN /\ Len(mig.ws) = Len(LegacyProjects)
           /\ index[1] = "array"
           /\ Len(index[2]) = Len(LegacyProjects)
           /\ \A k \in DOMAIN LegacyProjects :
                 LET p == LegacyProjects[k]
                     w == writes[mig.ws[k]]
                     file == ReadJson(w.filePath)
                     sessions == Get(p, "sessions")[2]
                     threads == Get(file.value, "threads")
                 IN /\ w.filePath = projectJsonPath(Chars(Get(p, "id")[2]))
                    /\ \A j \in 1..(k - 1) : mig.ws[j] < mig.ws[k]
                    /\ file.status = "ok"
                    /\ Get(file.value, "id") = Get(p, "id")
                    /\ Get(file.value, "name") = Get(p, "name")
                    /\ Get(file.value, "documents") = Arr(<<>>)
                    /\ threads[1] = "array"
                    /\ Len(threads[2]) = Len(sessions)
                    /\ \A i \in DOMAIN sessions : ThreadOf(threads[2][i], sessions[i])
                    /\ Get(index[2][k], "id") = Get(p, "id")
                    /\ Get(index[2][k], "name") = Get(p, "name")

\* A migration of two projects, one with two sessions and messages, has returned.
C19_Witness ==
    /\ mig.pc = "returned"
    /\ Len(LegacyProjects) = 2
    /\ Len(Get(LegacyProjects[1], "sessions")[2]) = 2
    /\ Len(Get(Get(LegacyProjects[1], "sessions")[2][1], "messages")[2]) = 2
    /\ Len(mig.ws) = 2

\* The legacy state has the field, with a value (not null).
Present(legacy, key) == In(key, legacy) /\ legacy[2][key][1] # "null"

\* C20: the state migrateLegacyState returns has the legacy activeProjectId
\* and activeSessionId when present; else the id of the first project and of
\* the first project's first session; else null and the empty string.
C20_ActiveIds ==
    mig.pc = "returned" =>
        LET legacy == JSONparse(mig.text).value
            state == mig.result.value
            first == LegacyProjects[1]
        IN /\ Get(state, "activeProjectId") =
                  IF Present(legacy, "activeProjectId") THEN legacy[2]["activeProjectId"]
                  ELSE IF LegacyProjects # <<>> THEN Get(first, "id")
                  ELSE JNull
           /\ Get(state, "activeThreadId") =
                  IF Present(legacy, "activeSessionId") THEN legacy[2]["activeSessionId"]
                  ELSE IF LegacyProjects # <<>> /\ Get(first, "sessions")[2] # <<>>
                       THEN Get(Get(first, "sessions")[2][1], "id")
                  ELSE Str("")

\* A migration of two projects without legacy active ids has returned.
C20_Witness ==
    /\ mig.pc = "returned"
    /\ Len(LegacyProjects) = 2
    /\ ~In("activeProjectId", JSONparse(mig.text).value)
    /\ ~In("activeSessionId", JSONparse(mig.text).value)
    /\ Get(mig.result.value, "activeProjectId") = Str("p1")
    /\ Get(mig.result.value, "activeThreadId") = Str("s1")


\* The project file of the project with the id given, as read from disk.
ProjectFileOf(id) == ReadJson(projectJsonPath(Chars(id[2])))

\* The ids of the threads of a project file.
ThreadIds(file) ==
    LET threads == Get(file.value, "threads")
    IN IF file.status = "ok" /\ threads[1] = "array"
       THEN {Get(threads[2][i], "id") : i \in DOMAIN threads[2]}
       ELSE {}

\* C21: the state migrateLegacyState returns satisfies the active-reference
\* invariant: when activeProjectId is not null, activeThreadId is the id of a
\* thread of the project file persisted for that project.
C21_ActiveReference ==
    mig.pc = "returned" =>
        LET state == mig.result.value
            active == Get(state, "activeProjectId")
        IN active[1] = "string" =>
               Get(state, "activeThreadId") \in ThreadIds(ProjectFileOf(active))

\* What a run of migrateLegacyState on the text given, at the time given,
\* writes and returns when no write fails: the project files in order, and
\* the application state.
Migrated(text, now) ==
    LET legacy == JSONparse(text).value
        given == Get(legacy, "projects")
        projects == IF given[1] = "array" THEN given[2] ELSE <<>>
        index == [k \in DOMAIN projects |->
                     Obj([id |-> Get(projects[k], "id"), name |-> Get(projects[k], "name"),
                          updatedAt |-> Num(now)])]
    IN [files |-> [k \in DOMAIN projects |-> JSONstringify(migrateProject(projects[k], now))],
        state |-> migrateAppState(legacy, projects, index)]

\* C22: migrateLegacyState is deterministic: a run on the same legacy text at
\* any other time returns the state this run returned and writes the texts
\* this run wrote, for the project files and for app-state.json.
C22_Deterministic ==
    mig.pc = "returned" =>
        \A now \in Times :
            LET other == Migrated(mig.text, now)
            IN /\ other.state = mig.result.value
               /\ JSONstringify(other.state) = writes[mig.wApp].data
               /\ Len(other.files) = Len(mig.ws)
               /\ \A k \in DOMAIN mig.ws : other.files[k] = writes[mig.ws[k]].data

\* C23: a migration that has failed is not partial: no project file and no
\* app-state.json written by the call is on disk.
C23_FailureNotPartial ==
    mig.pc = "threw" =>
        /\ appStatePath \notin DOMAIN files
        /\ \A k \in DOMAIN mig.ws : writes[mig.ws[k]].filePath \notin DOMAIN files


\* The keys the saves have used so far, each with the path it writes.
UsedKeys ==
    {[key |-> t.key, filePath |-> t.filePath] : t \in timers}
        \cup {[key |-> writes[i].key, filePath |-> writes[i].filePath] : i \in DOMAIN writes}

\* A target and its .tmp sibling.
PathsOf(filePath) == {filePath, TmpPath(filePath)}

\* Where copyDocument wrote the blob of a StoredDocument.
BlobPath(doc) == pathJoin(DocsDirOf(doc.targetId), <<doc.storedFileName>>)

TimerWriteFailed(i) == writes[i].origin = "timer" /\ writes[i].pc = "failed"

\* C25: when the write started by a fired timer has failed, the failure
\* reaches no caller (the promise of flush is rejected only by a write that
\* flush started), the scheduler holds no entry and no timer for the payload
\* of that write, and a write started later, for the same key or another,
\* fails only on a filesystem error of its own or on a target with overlapping
\* writes and, when it is the latest done on a target free of overlapping
\* writes, has left its content in the file.
C25_TimerFailureSwallowed ==
    \A i \in DOMAIN writes :
        TimerWriteFailed(i) =>
            /\ proc \in {"running", "quitting"}
            /\ FlushStatus = "rejected" =>
                   \E j \in DOMAIN writes : writes[j].origin = "flush" /\ writes[j].pc = "failed"
            /\ \A k \in DOMAIN pendingWrites : pendingWrites[k].data # writes[i].data
            /\ \A t \in timers : t.data # writes[i].data
            /\ \A j \in DOMAIN writes :
                  i < j =>
                      /\ writes[j].pc = "failed" =>
                             writes[j].err \/ writes[j].filePath \in overlapped
                      /\ (/\ writes[j].pc = "done"
                          /\ LastDone(writes[j].filePath) = j
                          /\ writes[j].filePath \notin overlapped)
                             => ReadFile(writes[j].filePath) = Full(writes[j].data)

\* A timer write failed on a filesystem error, and a later save of the same
\* key was scheduled, written by its timer and is in the file.
C25_Witness ==
    \E i, j \in DOMAIN writes :
        /\ i < j
        /\ TimerWriteFailed(i) /\ writes[i].err
        /\ writes[j].key = writes[i].key
        /\ writes[j].origin = "timer"
        /\ writes[j].pc = "done"
        /\ ReadFile(writes[j].filePath) = Full(writes[j].data)


\* boot() and the switch it may start have run to their end.
BootCompleted == boot.pc = "done" /\ op = Idle

\* The thread the application state names is one of the active project when
\* activeProjectId is non-null, and one of the global threads when it is null.
ActiveThreadExists ==
    LET activeId == Get(appState, "activeSessionId")
        projectId == Get(appState, "activeProjectId")
    IN IF projectId[1] = "null"
       THEN SomeId(Get(appState, "globalThreads"), activeId)
       ELSE /\ Get(activeProject, "id") = projectId
            /\ SomeId(Get(activeProject, "sessions"), activeId)

\* C27: boot completes from every persisted state, and after it the active
\* thread id of the application state references an existing thread, of the
\* active project when activeProjectId is non-null and of the global threads
\* when it is null (a fresh project being made when there is neither).
C27_BootRepairs ==
    /\ boot.pc # "threw"
    /\ BootCompleted => ActiveThreadExists

\* The handlers of the window have run to completion.
Quiescent == boot.pc = "done" /\ op = Idle

\* activeDocumentId of a thread is null or the id of a document of the list.
ActiveDocumentIn(thread, documents) ==
    \/ Get(thread, "activeDocumentId")[1] \in {"null", "undefined"}
    \/ SomeId(documents, Get(thread, "activeDocumentId"))

\* C28: once the handlers have run to completion, the activeDocumentId of
\* every thread of the open project is null or the id of one of the project's
\* documents, and that of every global thread is null or the id of one of the
\* thread's own documents.
C28_ActiveDocumentListed ==
    Quiescent =>
        /\ HasSessions =>
               \A i \in DOMAIN Get(activeProject, "sessions")[2] :
                   ActiveDocumentIn(Get(activeProject, "sessions")[2][i],
                                    Get(activeProject, "documents"))
        /\ \A i \in DOMAIN Get(appState, "globalThreads")[2] :
               ActiveDocumentIn(Get(appState, "globalThreads")[2][i],
                                Get(Get(appState, "globalThreads")[2][i], "documents"))

\* The stored file names the documents of a project or thread list.
ListedNames(documents) ==
    IF documents[1] = "array"
    THEN {Get(documents[2][i], "storedFileName")[2] : i \in DOMAIN documents[2]}
    ELSE {}

\* The stored file names of the blobs on disk under a target.
BlobNames(targetId) ==
    {d.storedFileName : d \in {e \in docs : e.targetId = Chars(targetId)}}

\* The documents the metadata of a target lists, as the window holds it: those
\* of the open project, those of a global thread, none for a thread or project
\* that was deleted.
MetadataOf(targetId) ==
    IF ~Falsy(activeProject) /\ Get(activeProject, "id") = Str(targetId)
    THEN Get(activeProject, "documents")
    ELSE IF SomeId(Get(appState, "globalThreads"), Str(targetId))
    THEN Get(FindId(Get(appState, "globalThreads"), Str(targetId)), "documents")
    ELSE Arr(<<>>)

\* The targets whose metadata the window holds: the global threads ever made,
\* the open project and the projects that are no longer in the index.
HeldTargets ==
    {Uid("thread", n) : n \in 1..nUids}
        \cup {p \in {Uid("project", n) : n \in 1..nUids} :
                 \/ ~Falsy(activeProject) /\ Get(activeProject, "id") = Str(p)
                 \/ ~SomeId(Get(appState, "projectIndex"), Str(p))}

\* C29: once the handlers have run to completion, the blobs on disk under a
\* target are exactly the stored files its metadata lists.
C29_BlobMetadataPaired ==
    Quiescent => \A t \in HeldTargets : BlobNames(t) = ListedNames(MetadataOf(t))

\* The threads of a project as the window holds it, and the threads the window
\* holds: those of the open project and the global ones.
ThreadsOf(project) ==
    IF Get(project, "sessions")[1] = "array" THEN Get(project, "sessions")[2]
    ELSE IF Get(project, "threads")[1] = "array" THEN Get(project, "threads")[2]
    ELSE <<>>

HeldThreads(project, state) ==
    ThreadsOf(project) \o
        (IF Get(state, "globalThreads")[1] = "array" THEN Get(state, "globalThreads")[2]
         ELSE <<>>)

\* The messages of the thread of an id among threads.
MessagesOf(threads, id) ==
    LET thread == threads[CHOOSE i \in DOMAIN threads : Get(threads[i], "id") = id]
    IN IF Get(thread, "messages")[1] = "array" THEN Get(thread, "messages")[2] ELSE <<>>

IsPrefix(s, t) == Len(s) <= Len(t) /\ SubSeq(t, 1, Len(s)) = s

\* A step keeps the messages of every thread the window holds before and
\* after it, and adds messages at the end only.
MessagesKept ==
    LET before == HeldThreads(activeProject, appState)
        after == HeldThreads(activeProject', appState')
    IN \A i \in DOMAIN before :
           LET id == Get(before[i], "id")
           IN (\E j \in DOMAIN after : Get(after[j], "id") = id)
                  => IsPrefix(MessagesOf(before, id), MessagesOf(after, id))

\* C30: the message list of a thread that still exists only grows by
\* appending at the end: no step removes, changes or reorders a message of a
\* thread that is there before and after it.
C30_MessagesAppendOnly == [][MessagesKept]_vars

\* A call of atomicWrite that failed though no filesystem call of its own was
\* refused: its rename found no temp file.
FailedByOther(i) == writes[i].pc = "failed" /\ ~writes[i].err

\* C31: on a target that two atomicWrite calls have written while both were
\* in flight, a reader finds no file or the complete payload of one of the
\* calls on that target, and no call on it has failed but by an I/O error of
\* its own.
C31_OverlapSafe ==
    \A p \in overlapped :
        /\ \/ ReadFile(p) = <<"ENOENT">>
           \/ \E i \in DOMAIN writes :
                 writes[i].filePath = p /\ ReadFile(p) = Full(writes[i].data)
        /\ \A i \in DOMAIN writes : writes[i].filePath = p => ~FailedByOther(i)

\* The payload d of key k is pending with its own timer while a write the
\* scheduler started for k is in flight.
FreshWhileInFlight(k, d) ==
    /\ Alive
    /\ MapHas(pendingWrites, k) /\ pendingWrites[k].data = d
    /\ MapHas(debounceTimers, k)
    /\ \E t \in timers : t.id = debounceTimers[k] /\ t.key = k /\ t.data = d
    /\ \E i \in WritersOf(k) : InFlight(writes[i])

\* The file of k holds d; or d was replaced by a later save of k, the process
\* has ended, or a filesystem call of the write of d was refused.
WrittenOrExcused(k, d) ==
    \/ ReadFile(KeyPath(k)) = Full(d)
    \/ lastSched[k] # d
    \/ ~Alive
    \/ \E i \in StartedFor(d) : writes[i].err

\* C32: a payload scheduled for a key while a write of that key is in flight
\* is pending with its own timer, and is eventually written to the key's
\* file, unless a later save replaces it, the process ends or the disk
\* refuses its write.
C32_FreshEntryWritten ==
    \A k \in Keys : \A d \in 1..MaxCalls :
        FreshWhileInFlight(k, d) ~> WrittenOrExcused(k, d)

\* flush is awaiting its writes, and the payload d of key k, scheduled after
\* the flush call, is pending with its own timer.
ScheduledDuringFlush(k, d) ==
    /\ Alive
    /\ FlushStatus = "awaiting"
    /\ d > flushCall.n
    /\ MapHas(pendingWrites, k) /\ pendingWrites[k].data = d
    /\ MapHas(debounceTimers, k)
    /\ \E t \in timers : t.id = debounceTimers[k] /\ t.key = k /\ t.data = d

\* C33: a payload scheduled while flush is awaiting its writes is not erased
\* by flush and is eventually written to the key's file, unless a later save
\* replaces it, the process ends or the disk refuses its write.
C33_NotErasedByFlush ==
    \A k \in Keys : \A d \in 1..MaxCalls :
        ScheduledDuringFlush(k, d) ~> WrittenOrExcused(k, d)

\* C34: the timer map and the pending-payload map have the same keys, and the
\* pending payload of a key is the path and the content of the latest save
\* call of that key, held by the timer the map names.
C34_MapsCoIndexed ==
    /\ DOMAIN debounceTimers = DOMAIN pendingWrites
    /\ \A k \in DOMAIN pendingWrites :
          /\ pendingWrites[k] = [filePath |-> KeyPath(k), data |-> lastSched[k]]
          /\ \E t \in timers :
                /\ t.id = debounceTimers[k]
                /\ t.key = k /\ t.filePath = KeyPath(k) /\ t.data = lastSched[k]

\* C34 witness: a save has replaced the pending payload of a key; the maps
\* hold the key with the later payload.
C34_Witness ==
    /\ DOMAIN pendingWrites = DOMAIN debounceTimers
    /\ \E k \in DOMAIN pendingWrites :
          /\ \E s \in superseded : s.key = k /\ s.data # pendingWrites[k].data
          /\ pendingWrites[k].data = lastSched[k]

\* The steps of one atomicWrite call: mkdir, then the temp file opened and
\* written, then the rename; a refused step ends the call.
AtomicWriteOrder ==
    {<<"mkdir", "open">>, <<"open", "write">>, <<"write", "write">>, <<"write", "rename">>,
     <<"rename", "done">>,
     <<"mkdir", "failed">>, <<"open", "failed">>, <<"write", "failed">>, <<"rename", "failed">>}
        \cup {<<pc, pc>> : pc \in {"mkdir", "open", "write", "rename", "done", "failed"}}

AtomicWriteStep ==
    /\ \A i \in DOMAIN writes :
          /\ <<writes[i].pc, writes'[i].pc>> \in AtomicWriteOrder
          /\ writes[i].pc = "failed" => writes'[i] = writes[i]
          /\ (writes[i].pc # "failed" /\ writes'[i].pc = "failed")
                => ReadFile(writes[i].filePath)' = ReadFile(writes[i].filePath)
    /\ \A p \in Targets \ overlapped :
          ReadFile(p)' # ReadFile(p)
              => \E j \in DOMAIN writes :
                    /\ writes[j].filePath = p
                    /\ writes[j].pc = "rename" /\ writes'[j].pc = "done"

\* C35: a call of atomicWrite goes through mkdir, the temp write and the
\* rename in that order; a failed call takes no further step, the step that
\* fails leaves the target as it was, and a target whose calls follow one
\* another changes only in the successful rename of a call.
C35_FailureKeepsTarget == [][AtomicWriteStep]_vars

\* C35 witness: a call has failed on an I/O error after it had opened its
\* temp file, and the target holds the complete content of the call before.
C35_Witness ==
    \E i, j \in DOMAIN writes :
        /\ j < i
        /\ writes[i].filePath = writes[j].filePath
        /\ writes[j].pc = "done"
        /\ writes[i].pc = "failed" /\ writes[i].err
        /\ TmpPath(writes[i].filePath) \in DOMAIN files
        /\ ReadFile(writes[i].filePath) = Full(writes[j].data)

\* The directory the documents of a target belong in, spelled out: the base
\* directory, "threads" for an id that starts with "thread-" and "projects"
\* for any other, the sanitized id, "documents".
ExpectedDocsDir(targetId) ==
    LET isThread == Len(targetId) >= 7 /\ SubSeq(targetId, 1, 7) = S_threadDash
    IN baseDir \o <<IF isThread THEN S_threads ELSE S_projects,
                    sanitizeFileName(targetId), S_documents>>

\* C36: copyDocument, readDocument and deleteDocument resolve the same
\* directory from the targetId alone, threads/<sanitized id>/documents for an
\* id that starts with "thread-" and projects/<sanitized id>/documents for
\* any other, and resolving makes nothing on disk: every file is one a
\* copyDocument call stored in the directory of its target, the only
\* directories are the ones those calls made, a read finds its file exactly
\* when the directory of its target holds it, and the blob of a deleted
\* record is gone from the directory of its target (for a stored name within
\* the cap of sanitizeFileName that no other record holds).
C36_SameDocsDir ==
    /\ \A t \in TargetIds \cup WideProjectIds : DocsDirOf(t) = ExpectedDocsDir(t)
    /\ \A f \in DOMAIN files :
          \E u \in uploads : f = ExpectedDocsDir(u.targetId) \o <<u.storedFileName>>
    /\ dirs = UNION {Ancestors(ExpectedDocsDir(u.targetId)) : u \in uploads}
    /\ readResult.status # "none" =>
          (readResult.status = "ok" <=>
              ExpectedDocsDir(readResult.doc.targetId)
                  \o <<sanitizeFileName(readResult.doc.storedFileName)>> \in DOMAIN files)
    /\ \A u \in uploads \ docs :
          /\ sanitizeFileName(u.storedFileName) = u.storedFileName
          /\ \A d \in docs : d.storedFileName # u.storedFileName
                                \/ ExpectedDocsDir(d.targetId) # ExpectedDocsDir(u.targetId)
          => ExpectedDocsDir(u.targetId) \o <<u.storedFileName>> \notin DOMAIN files

\* A thread's document is stored under threads/ and has just been read, and
\* a project's document was stored under projects/ and has been deleted.
C36_Witness ==
    /\ readResult.status = "ok"
    /\ startsWith(readResult.doc.targetId, S_threadDash)
    /\ baseDir \o <<S_threads, readResult.doc.targetId, S_documents,
                    readResult.doc.storedFileName>> \in DOMAIN files
    /\ \E u \in uploads \ docs :
          /\ ~startsWith(u.targetId, S_threadDash)
          /\ baseDir \o <<S_projects, u.targetId, S_documents>> \in dirs
          /\ BlobPath(u) \notin DOMAIN files

\* The entries of the projectIndex of the app-state.json on disk (none when
\* the file is absent or does not parse).
IndexOnDisk ==
    LET file == ReadJson(appStatePath)
        index == Get(file.value, "projectIndex")
    IN IF file.status = "ok" /\ index[1] = "array"
       THEN {index[2][i] : i \in DOMAIN index[2]}
       ELSE {}

\* C37: migrateLegacyState starts the write of app-state.json only after
\* every project file has been written, and returns only after app-state.json
\* has been written; so in every state the call passes through (a crash may
\* end it there) either no app-state.json is on disk, or the one on disk is
\* the complete text of the call and every entry of its projectIndex has its
\* project file on disk.
C37_AppStateLast ==
    /\ mig.wApp # 0 =>
          \A k \in DOMAIN mig.ws :
              /\ writes[mig.ws[k]].pc = "done"
              /\ ReadFile(writes[mig.ws[k]].filePath) = Full(writes[mig.ws[k]].data)
    /\ mig.pc = "returned" =>
          /\ writes[mig.wApp].pc = "done"
          /\ ReadFile(appStatePath) = Full(writes[mig.wApp].data)
    /\ appStatePath \in DOMAIN files =>
          /\ mig.wApp # 0
          /\ ReadFile(appStatePath) = Full(writes[mig.wApp].data)
          /\ Len(mig.ws) = Len(Get(ReadJson(appStatePath).value, "projectIndex")[2])
          /\ \A e \in IndexOnDisk : ProjectFileOf(Get(e, "id")).status = "ok"

\* A migration of two projects has returned: app-state.json is on disk and
\* lists both, each with its project file.
C37_Witness ==
    /\ mig.pc = "returned"
    /\ Len(mig.ws) = 2
    /\ Cardinality(IndexOnDisk) = 2
    /\ \A e \in IndexOnDisk : ProjectFileOf(Get(e, "id")).status = "ok"

\* The ProjectMetadata the migration built for the project with the id given
\* (the last one, when the legacy state holds the id twice).
BuiltFor(projectId) ==
    LET k == CHOOSE k \in DOMAIN mig.projects :
                 /\ Chars(Get(mig.projects[k], "id")[2]) = projectId
                 /\ \A j \in DOMAIN mig.projects :
                       Chars(Get(mig.projects[j], "id")[2]) = projectId => j <= k
    IN migrateProject(mig.projects[k], mig.now)

\* C38: once migrateLegacyState has returned state S, loadAppState() returns
\* S, and loadProject(id) of a project of S.projectIndex returns the
\* ProjectMetadata the migration built (values compared as JSON keeps them:
\* a property that is undefined counts as absent).
C38_LoadSeesMigrated ==
    /\ appLoad.called => appLoad.result = Returned(JSONclean(mig.result.value))
    /\ \A l \in DOMAIN loads :
          /\ loads[l].pc = "returned"
          /\ loads[l].result = Returned(JSONclean(BuiltFor(loads[l].projectId)))

\* C39: over the launches of the application migrateLegacyState returns at
\* most once: boot() calls it only when no state loaded and localStorage
\* holds the legacy blob, removes the blob once the call has returned, and
\* keeps it when the call has failed.
C39_MigratesOnce ==
    /\ mig.returns <= 1
    /\ mig.pc \in {"called", "project", "appState"} =>
          boot.pc = "migrating" /\ boot.legacy = mig.text
    /\ mig.pc = "returned" /\ boot.pc # "migrating" => boot.legacy = NoFile
    /\ mig.pc = "threw" => boot.legacy = mig.text

====
